---------------------------- MODULE Spec2Model ----------------------------
(***************************************************************************)
(* A model of the scalar wrapper types of go-mongodb (package types):      *)
(* ObjectId, UUID, Binary, NullString and the nullable numbers, with       *)
(* their JSON and BSON encoders and decoders (Spec), of the two            *)
(* replaceable generators behind NewObjectId and NewUuid (GenSpec), and    *)
(* of the connector of package mongodb: its copies and the calls it        *)
(* forwards to the driver (ConnSpec, CopySpec) and the sequence numbers    *)
(* of GetNextSeq (SeqSpec).                                                *)
(*                                                                         *)
(* Representation.  A Go string or []byte of text is a sequence of         *)
(* one-character strings; a []byte of binary data is a sequence of numbers *)
(* 0..255; an intN is the sequence of its N/8 two's-complement bytes, most *)
(* significant first (the way the literal 0x7FFFFFFF reads); a float64 is  *)
(* a dyadic rational [neg, m, e] standing for (-1)^neg * m * 2^e.          *)
(***************************************************************************)
EXTENDS Integers, Sequences, FiniteSets, TLC

VARIABLES dst, res, objectIdGenerator, uuidGenerator, objectIDCounter,
          unpublished, goroutine, lastSet, nset, returned,
          connectors, store, seqCall, ret, handed

\* The package-level state and the goroutines that use it, see "The
\* generators" below.
globals ==
  <<objectIdGenerator, uuidGenerator, objectIDCounter, unpublished,
    goroutine, lastSet, nset, returned>>

\* The connectors, the database behind them and the calls made through them,
\* see "The connector" below.
facade == <<connectors, store, seqCall, ret, handed>>

vars == <<dst, res, globals, facade>>

-----------------------------------------------------------------------------
(* Characters, digits and bytes.                                           *)

\* The printable ASCII characters, 0x20..0x7E, in code order (0x60, which the
\* lexer cannot quote, is held by a placeholder no text contains).
AsciiPrintable ==
  << " ", "!", "\"", "#", "$", "%", "&", "'", "(", ")", "*", "+", ",", "-",
     ".", "/", "0", "1", "2", "3", "4", "5", "6", "7", "8", "9", ":", ";",
     "<", "=", ">", "?", "@", "A", "B", "C", "D", "E", "F", "G", "H", "I",
     "J", "K", "L", "M", "N", "O", "P", "Q", "R", "S", "T", "U", "V", "W",
     "X", "Y", "Z", "[", "\\", "]", "^", "_", "<grave>", "a", "b", "c", "d", "e",
     "f", "g", "h", "i", "j", "k", "l", "m", "n", "o", "p", "q", "r", "s",
     "t", "u", "v", "w", "x", "y", "z", "{", "|", "}", "~" >>

\* The position of c in the sequence s, 0 when it does not occur.
IndexOf(s, c) ==
  IF \E i \in 1..Len(s) : s[i] = c
    THEN CHOOSE i \in 1..Len(s) : s[i] = c /\ \A j \in 1..(i-1) : s[j] # c
    ELSE 0

\* The byte of a character ("\n" is 0x0A; every other one is printable).
AsciiCode(c) == IF c = "\n" THEN 10 ELSE 31 + IndexOf(AsciiPrintable, c)

\* string -> []byte
BytesOfString(s) == [i \in 1..Len(s) |-> AsciiCode(s[i])]

\* encoding/hex: the table "0123456789abcdef" the encoder indexes.
hextable ==
  << "0", "1", "2", "3", "4", "5", "6", "7", "8", "9",
     "a", "b", "c", "d", "e", "f" >>

HexUpperLetters == << "A", "B", "C", "D", "E", "F" >>

\* encoding/hex fromHexChar, google/uuid xvalues: the value of a hex digit
\* of either case, -1 for any other character.
fromHexChar(c) ==
  IF IndexOf(hextable, c) > 0 THEN IndexOf(hextable, c) - 1
  ELSE IF IndexOf(HexUpperLetters, c) > 0 THEN 9 + IndexOf(HexUpperLetters, c)
  ELSE -1

\* hex.EncodeToString: two lowercase digits per byte.
RECURSIVE HexEncode(_)
HexEncode(b) ==
  IF b = << >> THEN << >>
  ELSE << hextable[(b[1] \div 16) + 1], hextable[(b[1] % 16) + 1] >>
       \o HexEncode(Tail(b))

\* hex.Decode of an even-length text: the bytes, or an error at the first
\* character that is no hex digit.
RECURSIVE HexDecode(_)
HexDecode(s) ==
  IF s = << >> THEN [err |-> "nil", bytes |-> << >>]
  ELSE IF fromHexChar(s[1]) < 0 \/ fromHexChar(s[2]) < 0
    THEN [err |-> "encoding/hex: invalid byte", bytes |-> << >>]
  ELSE LET rest == HexDecode(SubSeq(s, 3, Len(s)))
       IN  IF rest.err # "nil" THEN rest
           ELSE [err |-> "nil",
                 bytes |-> << 16 * fromHexChar(s[1]) + fromHexChar(s[2]) >>
                           \o rest.bytes]

\* n zero bytes
ZeroBytes(n) == [i \in 1..n |-> 0]

Reverse(s) == [i \in 1..Len(s) |-> s[Len(s) + 1 - i]]

\* The little-endian int32 of a length below 2^24 (BSON length prefixes).
LE32(n) == << n % 256, (n \div 256) % 256, (n \div 65536) % 256, 0 >>

\* The number a little-endian int32 length prefix stands for; -1 for one
\* that is negative or beyond the lengths the model draws.
ReadLE32(b) ==
  IF b[4] # 0 THEN -1 ELSE b[1] + 256 * b[2] + 65536 * b[3]

-----------------------------------------------------------------------------
(* encoding/json, as far as the wrapper types call it.                     *)

\* json.Marshal(nil)
JsonNull == << "n", "u", "l", "l" >>

\* The escape json.Marshal writes for one character of a string: quote,
\* backslash and newline are escaped, and so are <, > and & (HTML escaping
\* is on by default).
JsonEscapeChar(c) ==
  CASE c = "\"" -> << "\\", "\"" >>
    [] c = "\\" -> << "\\", "\\" >>
    [] c = "\n" -> << "\\", "n" >>
    [] c = "<"  -> << "\\", "u", "0", "0", "3", "c" >>
    [] c = ">"  -> << "\\", "u", "0", "0", "3", "e" >>
    [] c = "&"  -> << "\\", "u", "0", "0", "2", "6" >>
    [] OTHER    -> << c >>

RECURSIVE JsonEscape(_)
JsonEscape(s) ==
  IF s = << >> THEN << >>
  ELSE IF Len(s) = 1 THEN JsonEscapeChar(s[1])
  ELSE LET h == Len(s) \div 2
       IN  JsonEscape(SubSeq(s, 1, h)) \o JsonEscape(SubSeq(s, h + 1, Len(s)))

\* json.Marshal(string(s))
JsonMarshalString(s) == << "\"" >> \o JsonEscape(s) \o << "\"" >>

\* The character of a code point \uXXXX; a placeholder beyond ASCII.
RuneOf(cp) ==
  IF cp = 10 THEN "\n"
  ELSE IF cp >= 32 /\ cp <= 126 THEN AsciiPrintable[cp - 31]
  ELSE "<rune>"

\* The text between the quotes of a JSON string literal, unescaped; ok is
\* FALSE for a raw quote, a raw control character or a malformed escape.
\* The characters before the first backslash are copied as they are.
RECURSIVE JsonUnquoteBody(_)
JsonUnquoteBody(s) ==
  LET k     == IndexOf(s, "\\")
      plain == IF k = 0 THEN s ELSE SubSeq(s, 1, k - 1)
      esc   == SubSeq(s, k, Len(s))
      bad   == [ok |-> FALSE, val |-> << >>]
      After(c, n) ==
        LET rest == JsonUnquoteBody(SubSeq(esc, n, Len(esc)))
        IN  IF rest.ok THEN [ok |-> TRUE, val |-> plain \o << c >> \o rest.val]
            ELSE bad
  IN  IF \E i \in 1..Len(plain) : plain[i] = "\"" \/ plain[i] = "\n" THEN bad
      ELSE IF k = 0 THEN [ok |-> TRUE, val |-> s]
      ELSE IF Len(esc) < 2 THEN bad
      ELSE IF esc[2] \in {"\"", "\\", "/"} THEN After(esc[2], 3)
      ELSE IF esc[2] = "n" THEN After("\n", 3)
      ELSE IF esc[2] = "u" /\ Len(esc) >= 6
              /\ \A i \in 3..6 : fromHexChar(esc[i]) >= 0
        THEN After(RuneOf(4096 * fromHexChar(esc[3])
                          + 256 * fromHexChar(esc[4])
                          + 16 * fromHexChar(esc[5]) + fromHexChar(esc[6])), 7)
      ELSE bad

JsonSpace == {" ", "\n"}

\* The text without the white space json allows around a value.
RECURSIVE JsonTrim(_)
JsonTrim(s) ==
  IF s = << >> THEN s
  ELSE IF s[1] \in JsonSpace THEN JsonTrim(Tail(s))
  ELSE IF s[Len(s)] \in JsonSpace THEN JsonTrim(SubSeq(s, 1, Len(s) - 1))
  ELSE s

\* json.Unmarshal(data, &str) with str == "" before the call: null leaves
\* str alone, a string literal is unquoted into it, and every other input
\* (another JSON type, or no JSON at all) is an error.
JsonUnmarshalString(data) ==
  LET t == JsonTrim(data)
  IN  IF t = JsonNull THEN [err |-> "nil", val |-> << >>]
      ELSE IF Len(t) >= 2 /\ t[1] = "\"" /\ t[Len(t)] = "\""
        THEN LET u == JsonUnquoteBody(SubSeq(t, 2, Len(t) - 1))
             IN  IF u.ok THEN [err |-> "nil", val |-> u.val]
                 ELSE [err |-> "json: syntax error", val |-> << >>]
      ELSE [err |-> "json: cannot unmarshal into Go value of type string",
            val |-> << >>]

-----------------------------------------------------------------------------
(* encoding/base64, StdEncoding.                                           *)

encodeStd ==
  << "A", "B", "C", "D", "E", "F", "G", "H", "I", "J", "K", "L", "M", "N",
     "O", "P", "Q", "R", "S", "T", "U", "V", "W", "X", "Y", "Z", "a", "b",
     "c", "d", "e", "f", "g", "h", "i", "j", "k", "l", "m", "n", "o", "p",
     "q", "r", "s", "t", "u", "v", "w", "x", "y", "z", "0", "1", "2", "3",
     "4", "5", "6", "7", "8", "9", "+", "/" >>

\* The 6-bit value of a base64 character, -1 when it is none.
Base64Val(c) == IndexOf(encodeStd, c) - 1

\* base64.StdEncoding.EncodeToString: 3 bytes to 4 characters, the last
\* group padded with "=".
RECURSIVE Base64Encode(_)
Base64Encode(b) ==
  IF b = << >> THEN << >>
  ELSE IF Len(b) = 1
    THEN << encodeStd[(b[1] \div 4) + 1], encodeStd[((b[1] % 4) * 16) + 1],
            "=", "=" >>
  ELSE IF Len(b) = 2
    THEN << encodeStd[(b[1] \div 4) + 1],
            encodeStd[((b[1] % 4) * 16 + b[2] \div 16) + 1],
            encodeStd[((b[2] % 16) * 4) + 1], "=" >>
  ELSE << encodeStd[(b[1] \div 4) + 1],
          encodeStd[((b[1] % 4) * 16 + b[2] \div 16) + 1],
          encodeStd[((b[2] % 16) * 4 + b[3] \div 64) + 1],
          encodeStd[(b[3] % 64) + 1] >>
       \o Base64Encode(SubSeq(b, 4, Len(b)))

\* The decoder skips "\r" and "\n".
Base64Strip(s) == SelectSeq(s, LAMBDA c : c # "\n")

\* The quanta of a stripped text: four characters give three bytes; "="
\* padding is legal only in the last two places of the last quantum; the
\* bits left over in a padded quantum are dropped (the decoder is not strict).
RECURSIVE Base64Quanta(_)
Base64Quanta(s) ==
  LET bad == [err |-> "illegal base64 data", bytes |-> << >>]
      v(i) == Base64Val(s[i])
  IN  IF s = << >> THEN [err |-> "nil", bytes |-> << >>]
      ELSE IF Len(s) < 4 THEN bad
      ELSE IF v(1) < 0 \/ v(2) < 0 THEN bad
      ELSE IF s[3] = "="
        THEN IF s[4] = "=" /\ Len(s) = 4
               THEN [err |-> "nil",
                     bytes |-> << v(1) * 4 + v(2) \div 16 >>]
               ELSE bad
      ELSE IF v(3) < 0 THEN bad
      ELSE IF s[4] = "="
        THEN IF Len(s) = 4
               THEN [err |-> "nil",
                     bytes |-> << v(1) * 4 + v(2) \div 16,
                                  (v(2) % 16) * 16 + v(3) \div 4 >>]
               ELSE bad
      ELSE IF v(4) < 0 THEN bad
      ELSE LET rest == Base64Quanta(SubSeq(s, 5, Len(s)))
           IN  IF rest.err # "nil" THEN bad
               ELSE [err |-> "nil",
                     bytes |-> << v(1) * 4 + v(2) \div 16,
                                  (v(2) % 16) * 16 + v(3) \div 4,
                                  (v(3) % 4) * 64 + v(4) >> \o rest.bytes]

\* base64.StdEncoding.DecodeString
Base64Decode(s) == Base64Quanta(Base64Strip(s))

-----------------------------------------------------------------------------
(* BSON type tags and binary subtypes (bson.Type, bson.TypeBinary...).     *)

TypeDouble   == 1
TypeString   == 2
TypeBinary   == 5
TypeObjectID == 7
TypeNull     == 10
TypeInt32    == 16
TypeInt64    == 18

TypeBinaryGeneric   == 0
TypeBinaryBinaryOld == 2
TypeBinaryUUID      == 4

\* A BSON value as the codec functions pass it: the type byte and the
\* payload (a nil payload is the empty sequence).
BsonValue(t, d) == [typ |-> t, data |-> d]

-----------------------------------------------------------------------------
(* bson.ObjectID: 12 bytes.                                                *)

\* The sentinel of objectid.go, "000000000000000000000000".
NilObjectID == [i \in 1..24 |-> "0"]

\* The byte length of a bson.ObjectID.
ObjectIDSize == Len(NilObjectID) \div 2

\* bson.ObjectIDFromHex: exactly 24 characters, all hex digits of either
\* case; the nil ObjectID comes with every error.
BsonObjectIDFromHex(s) ==
  IF Len(s) # 2 * ObjectIDSize
    THEN [err |-> "the provided hex string is not a valid ObjectID",
          oid |-> ZeroBytes(ObjectIDSize)]
  ELSE LET d == HexDecode(s)
       IN  IF d.err # "nil"
             THEN [err |-> d.err, oid |-> ZeroBytes(ObjectIDSize)]
             ELSE [err |-> "nil", oid |-> d.bytes]

\* bson.ObjectID.Hex
BsonObjectIDHex(oid) == HexEncode(oid)

\* bson.ObjectID.IsZero
BsonObjectIDIsZero(oid) == oid = ZeroBytes(ObjectIDSize)

-----------------------------------------------------------------------------
(* github.com/google/uuid: 16 bytes.                                       *)

\* Where the 16 hex pairs start in xxxxxxxx-xxxx-xxxx-xxxx-xxxxxxxxxxxx
\* (0-based, as in the library's table).
UuidPairOffsets ==
  << 0, 2, 4, 6, 9, 11, 14, 16, 19, 21, 24, 26, 28, 30, 32, 34 >>

\* The byte length of a uuid.UUID.
UuidSize == Len(UuidPairOffsets)

\* xtob: the byte of two hex digits, -1 when either is none.
xtob(x1, x2) ==
  IF fromHexChar(x1) < 0 \/ fromHexChar(x2) < 0 THEN -1
  ELSE 16 * fromHexChar(x1) + fromHexChar(x2)

\* The 16 bytes read at the given pair offsets of s. The library fills its
\* result pair by pair and returns at the first bad pair: the bytes before
\* it are set, the others are still zero.
UuidReadPairs(s, offs) ==
  LET val(i) == xtob(s[offs[i] + 1], s[offs[i] + 2])
      bad    == {i \in 1..UuidSize : val(i) < 0}
      first  == IF bad = {} THEN UuidSize + 1
                ELSE CHOOSE i \in bad : \A j \in bad : i <= j
  IN  [err  |-> IF bad = {} THEN "nil" ELSE "invalid UUID format",
       uuid |-> [i \in 1..UuidSize |-> IF i < first THEN val(i) ELSE 0]]

UrnPrefix == << "u", "r", "n", ":", "u", "u", "i", "d", ":" >>
UrnPrefixUpper == << "U", "R", "N", ":", "U", "U", "I", "D", ":" >>

\* strings.EqualFold(s[:9], "urn:uuid:")
IsUrnPrefix(s) ==
  \A i \in 1..Len(UrnPrefix) : s[i] \in {UrnPrefix[i], UrnPrefixUpper[i]}

\* uuid.Parse and uuid.ParseBytes (the same switch on the length): the
\* canonical 36-character form, that form after "urn:uuid:", that form
\* between any two characters (only the middle 36 are examined), or 32 hex
\* digits. The UUID returned with an error is the partly filled one.
UuidParse(s0) ==
  LET zero == ZeroBytes(UuidSize)
      dashed(s) ==
        IF s[9] # "-" \/ s[14] # "-" \/ s[19] # "-" \/ s[24] # "-"
          THEN [err |-> "invalid UUID format", uuid |-> zero]
          ELSE UuidReadPairs(s, UuidPairOffsets)
  IN  CASE Len(s0) = 36 -> dashed(s0)
        [] Len(s0) = 36 + 9 ->
             IF ~IsUrnPrefix(s0)
               THEN [err |-> "invalid urn prefix", uuid |-> zero]
               ELSE dashed(SubSeq(s0, 10, Len(s0)))
        [] Len(s0) = 36 + 2 -> dashed(Tail(s0))
        [] Len(s0) = 32 ->
             UuidReadPairs(s0, [i \in 1..UuidSize |-> 2 * (i - 1)])
        [] OTHER -> [err |-> "invalid UUID length", uuid |-> zero]

\* uuid.UUID.String: lowercase hex, dashes after bytes 4, 6, 8 and 10.
UuidString(u) ==
  HexEncode(SubSeq(u, 1, 4)) \o << "-" >> \o HexEncode(SubSeq(u, 5, 6))
  \o << "-" >> \o HexEncode(SubSeq(u, 7, 8)) \o << "-" >>
  \o HexEncode(SubSeq(u, 9, 10)) \o << "-" >> \o HexEncode(SubSeq(u, 11, 16))

\* uuid.FromBytes: exactly 16 bytes.
\* Mutation: a slice of another length is cut or filled up to 16 bytes.
Mut_UuidFromBytes_AnyLength(b) ==
  [err |-> "nil",
   uuid |-> [i \in 1..UuidSize |-> IF i <= Len(b) THEN b[i] ELSE 0]]

UuidFromBytes(b) ==
  IF Len(b) # UuidSize
    THEN [err |-> "invalid UUID (got n bytes)", uuid |-> ZeroBytes(UuidSize)]
    ELSE [err |-> "nil", uuid |-> b]

-----------------------------------------------------------------------------
(* bson.MarshalValue / bson.UnmarshalValue for the values the types pass.  *)

\* bson.MarshalValue(bson.Binary{Subtype, Data}) for the subtypes the types
\* write (0 and 4): int32 length, subtype byte, data.
BsonMarshalBinary(subtype, data) ==
  BsonValue(TypeBinary, LE32(Len(data)) \o << subtype >> \o data)

\* bson.MarshalValue(bson.ObjectID)
BsonMarshalObjectID(oid) == BsonValue(TypeObjectID, oid)

\* bson.MarshalValue(string): int32 length (with the terminator), the
\* bytes, a zero byte.
BsonMarshalString(s) ==
  BsonValue(TypeString, LE32(Len(s) + 1) \o BytesOfString(s) \o << 0 >>)

\* bson.UnmarshalValue(bson.TypeBinary, data, &bin): the value reader takes
\* the int32 length, the subtype, for the old binary subtype with a length
\* above 4 a second length, then that many bytes; bytes after them are
\* not looked at.
BsonUnmarshalBinary(data) ==
  LET bad == [err |-> "bson: malformed binary", subtype |-> 0, data |-> << >>]
  IN  IF Len(data) < 5 THEN bad
      ELSE LET l0  == ReadLE32(SubSeq(data, 1, 4))
               st  == data[5]
               old == st = TypeBinaryBinaryOld /\ l0 > 4
           IN  IF l0 < 0 THEN bad
               ELSE IF old /\ Len(data) < 9 THEN bad
               ELSE LET l   == IF old THEN ReadLE32(SubSeq(data, 6, 9)) ELSE l0
                        off == IF old THEN 9 ELSE 5
                    IN  IF l < 0 \/ Len(data) < off + l THEN bad
                        ELSE [err |-> "nil", subtype |-> st,
                              data |-> SubSeq(data, off + 1, off + l)]

-----------------------------------------------------------------------------
(* Integers of a fixed width: the two's-complement bytes, most significant *)
(* first.                                                                  *)

IntIsZero(v) == \A i \in 1..Len(v) : v[i] = 0

IntIsNeg(v) == v[1] >= 128

\* v + 1 modulo 2^width
RECURSIVE IntIncr(_)
IntIncr(v) ==
  IF v = << >> THEN v
  ELSE IF v[Len(v)] < 255
    THEN SubSeq(v, 1, Len(v) - 1) \o << v[Len(v)] + 1 >>
  ELSE IntIncr(SubSeq(v, 1, Len(v) - 1)) \o << 0 >>

\* The magnitude of a negative value, as an unsigned number of the width.
IntNegate(v) == IntIncr([i \in 1..Len(v) |-> 255 - v[i]])

\* Long division of an unsigned number by 10, carrying r in: the quotient
\* and the remainder.
RECURSIVE IntDivMod10(_, _)
IntDivMod10(v, r) ==
  IF v = << >> THEN [q |-> << >>, r |-> r]
  ELSE LET cur  == 256 * r + v[1]
           rest == IntDivMod10(Tail(v), cur % 10)
       IN  [q |-> << cur \div 10 >> \o rest.q, r |-> rest.r]

\* The decimal digits of an unsigned number.
RECURSIVE UintDecimal(_)
UintDecimal(v) ==
  LET d == IntDivMod10(v, 0)
  IN  IF IntIsZero(d.q) THEN << hextable[d.r + 1] >>
      ELSE UintDecimal(d.q) \o << hextable[d.r + 1] >>

\* strconv.AppendInt(v, 10), which json.Marshal writes for an int32 or int64.
JsonMarshalInt(v) ==
  IF IntIsNeg(v) THEN << "-" >> \o UintDecimal(IntNegate(v))
  ELSE UintDecimal(v)

\* bson.MarshalValue(int32(v)) and bson.MarshalValue(int64(v)): the type of
\* the Go type, the bytes little-endian. An int64 is never narrowed (the
\* encoder narrows only with MinSize, which MarshalValue does not set).
BsonMarshalInt32(v) == BsonValue(TypeInt32, Reverse(v))

BsonMarshalInt64(v) == BsonValue(TypeInt64, Reverse(v))

-----------------------------------------------------------------------------
(* Floating point.  A float64 is [neg, m, e, inf]: (-1)^neg * m * 2^e, or  *)
(* an infinity; m = 0 is zero. The model draws values with m below 2^24.   *)

Pow2(n) == IF n <= 0 THEN 1 ELSE 2 ^ n

\* The number of significant bits of m > 0.
RECURSIVE BitLen(_)
BitLen(m) == IF m = 0 THEN 0 ELSE 1 + BitLen(m \div 2)

FloatIsZero(f) == ~f.inf /\ f.m = 0

\* m * 2^e with m odd (or zero): the one representation of each value.
RECURSIVE FloatNorm(_)
FloatNorm(f) ==
  IF f.inf THEN [neg |-> f.neg, m |-> 0, e |-> 0, inf |-> TRUE]
  ELSE IF f.m = 0 THEN [neg |-> f.neg, m |-> 0, e |-> 0, inf |-> FALSE]
  ELSE IF f.m % 2 = 0 THEN FloatNorm([f EXCEPT !.m = f.m \div 2, !.e = f.e + 1])
  ELSE f

\* float32(v) for a float64 v whose m has at most 24 significant bits:
\* above the float32 range the conversion gives an infinity; below 2^-126
\* the value is rounded to a multiple of 2^-149, ties to even, which for
\* the smallest values is zero (the sign is kept).
Narrow32(f) ==
  IF f.inf \/ f.m = 0 THEN FloatNorm(f)
  ELSE LET top == BitLen(f.m) - 1 + f.e
       IN  IF top > 127 THEN [neg |-> f.neg, m |-> 0, e |-> 0, inf |-> TRUE]
           ELSE IF f.e >= -149 THEN FloatNorm(f)
           ELSE LET sh   == -149 - f.e
                    q    == IF sh > 30 THEN 0 ELSE f.m \div Pow2(sh)
                    r2   == IF sh > 30 THEN 0
                            ELSE (2 * f.m) \div Pow2(sh) - 2 * q
                    rest == IF sh > 30 THEN TRUE ELSE f.m % Pow2(sh - 1) # 0
                    up   == r2 = 1 /\ (rest \/ q % 2 = 1)
                IN  FloatNorm([neg |-> f.neg, m |-> IF up THEN q + 1 ELSE q,
                               e |-> -149, inf |-> FALSE])

\* The bits of n, most significant first, in a field of w bits.
Bits(n, w) ==
  [i \in 1..w |-> IF w - i > 30 THEN 0 ELSE (n \div Pow2(w - i)) % 2]

\* The bytes of a sequence of bits (a multiple of 8), first bit highest.
RECURSIVE BytesOfBits(_)
BytesOfBits(b) ==
  IF b = << >> THEN << >>
  ELSE << 128 * b[1] + 64 * b[2] + 32 * b[3] + 16 * b[4]
          + 8 * b[5] + 4 * b[6] + 2 * b[7] + b[8] >>
       \o BytesOfBits(SubSeq(b, 9, Len(b)))

\* The IEEE 754 binary64 bits of a value in the normal range: sign, the
\* exponent biased by 1023, the 52 bits after the leading one.
Float64Bits(f) ==
  LET sign == << IF f.neg THEN 1 ELSE 0 >>
  IN  IF f.inf THEN sign \o Bits(2047, 11) \o Bits(0, 52)
      ELSE IF f.m = 0 THEN sign \o Bits(0, 11) \o Bits(0, 52)
      ELSE LET k == BitLen(f.m)
           IN  sign \o Bits(k - 1 + f.e + 1023, 11)
               \o Bits(f.m - Pow2(k - 1), k - 1) \o Bits(0, 52 - (k - 1))

\* bson.MarshalValue(float32(v)) and bson.MarshalValue(float64(v)): BSON has
\* one floating point type, the double; a float32 is widened back.
BsonMarshalFloat(f) == BsonValue(TypeDouble, Reverse(BytesOfBits(Float64Bits(f))))

\* json.Marshal of a float: an infinity is an error; otherwise the shortest
\* decimal text that reads back as the value at the given bit size, which
\* the model keeps as the value and the bit size.
JsonMarshalFloat(f, bitSize) ==
  IF f.inf THEN [err |-> "json: unsupported value", out |-> << >>,
                 num |-> << >>]
  ELSE [err |-> "nil", out |-> << "<number>" >>, num |-> << bitSize, f >>]

-----------------------------------------------------------------------------
(* The results of the codec methods.  err is "nil" or the error text;      *)
(* "panic" stands for a run-time panic, which returns nothing.             *)

JsonResult(e, o) == [err |-> e, out |-> o, num |-> << >>]

BsonResult(e, v) == [err |-> e, typ |-> v.typ, data |-> v.data]

\* return byte(bson.TypeNull), nil, nil
BsonNullResult == BsonResult("nil", BsonValue(TypeNull, << >>))

\* return 0, nil, err
BsonErrResult(e) == BsonResult(e, BsonValue(0, << >>))

\* What a decoder leaves behind: the destination and the error.
DecodeResult(d, e) == [dst |-> d, err |-> e]

-----------------------------------------------------------------------------
(* types.ObjectId (objectid.go)                                            *)

\* Mutation: the argument is returned as given once it has parsed.
Mut_ObjectIdFromHex_AsGiven(s) ==
  LET p == BsonObjectIDFromHex(s)
  IN  IF p.err # "nil" THEN [val |-> << >>, err |-> p.err]
      ELSE [val |-> s, err |-> "nil"]

ObjectIdFromHex(s) ==
  LET p == BsonObjectIDFromHex(s)
  IN  IF p.err # "nil" THEN [val |-> << >>, err |-> p.err]
      ELSE [val |-> BsonObjectIDHex(p.oid), err |-> "nil"]

\* Mutation: the all-zero identifier counts as zero too.
Mut_ObjectId_IsZero_Sentinel(o) == Len(o) = 0 \/ o = NilObjectID

ObjectId_IsZero(o) == Len(o) = 0

\* fmt.Sprintf("ObjectID(%s)", string(o))
ObjectId_String(o) ==
  IF ObjectId_IsZero(o) THEN << "n", "u", "l", "l" >>
  ELSE << "O", "b", "j", "e", "c", "t", "I", "D", "(" >> \o o \o << ")" >>

ObjectId_MarshalJSON(o) ==
  IF Len(o) = 0 THEN JsonResult("nil", JsonNull)
  ELSE IF o = NilObjectID THEN JsonResult("nil", JsonNull)
  ELSE JsonResult("nil", JsonMarshalString(o))

\* Mutation: the destination is assigned before the parse error is checked.
Mut_ObjectId_UnmarshalJSON_EarlyWrite(o, data) ==
  LET j == JsonUnmarshalString(data)
  IN  IF j.err # "nil" THEN DecodeResult(o, j.err)
      ELSE IF Len(j.val) = 0 THEN DecodeResult(<< >>, "nil")
      ELSE LET p == BsonObjectIDFromHex(j.val)
           IN  DecodeResult(BsonObjectIDHex(p.oid), p.err)

ObjectId_UnmarshalJSON(o, data) ==
  LET j == JsonUnmarshalString(data)
  IN  IF j.err # "nil" THEN DecodeResult(o, j.err)
      ELSE IF Len(j.val) = 0 THEN DecodeResult(<< >>, "nil")
      ELSE LET p == BsonObjectIDFromHex(j.val)
           IN  IF p.err # "nil" THEN DecodeResult(o, p.err)
               ELSE DecodeResult(BsonObjectIDHex(p.oid), "nil")

\* Mutation: the parsed identifier is not compared with the zero ObjectID.
Mut_ObjectId_MarshalBSONValue_NoZeroCheck(o) ==
  IF Len(o) = 0 THEN BsonNullResult
  ELSE LET p == BsonObjectIDFromHex(o)
       IN  IF p.err # "nil" THEN BsonErrResult(p.err)
           ELSE BsonResult("nil", BsonMarshalObjectID(p.oid))

\* Mutation: an identifier that does not parse is written as null.
Mut_ObjectId_MarshalBSONValue_InvalidNull(o) ==
  IF Len(o) = 0 THEN BsonNullResult
  ELSE LET p == BsonObjectIDFromHex(o)
       IN  IF p.err # "nil" THEN BsonNullResult
           ELSE IF BsonObjectIDIsZero(p.oid) THEN BsonNullResult
           ELSE BsonResult("nil", BsonMarshalObjectID(p.oid))

ObjectId_MarshalBSONValue(o) ==
  IF Len(o) = 0 THEN BsonNullResult
  ELSE LET p == BsonObjectIDFromHex(o)
       IN  IF p.err # "nil" THEN BsonErrResult(p.err)
           ELSE IF BsonObjectIDIsZero(p.oid) THEN BsonNullResult
           ELSE BsonResult("nil", BsonMarshalObjectID(p.oid))

\* bson.ObjectID(data) converts the slice to a [12]byte: it panics on a
\* slice shorter than 12 bytes and takes the first 12 of a longer one.
ObjectId_UnmarshalBSONValue(o, typ, data) ==
  IF typ = TypeNull THEN DecodeResult(<< >>, "nil")
  ELSE IF typ # TypeObjectID
    THEN DecodeResult(o, "wrong bson type expected objectid")
  ELSE IF Len(data) < ObjectIDSize THEN DecodeResult(o, "panic")
  ELSE DecodeResult(BsonObjectIDHex(SubSeq(data, 1, ObjectIDSize)), "nil")

-----------------------------------------------------------------------------
(* types.UUID (uuid.go)                                                    *)

UUID_IsZero(u) == Len(u) = 0

\* Mutation: the zero UUID is displayed the way the zero ObjectId is.
Mut_UUID_String_Null(u) == IF Len(u) = 0 THEN << "n", "u", "l", "l" >> ELSE u

\* return string(u)
UUID_String(u) == u

\* The parsed UUID is rendered and returned whether or not Parse failed.
UuidFromString(id) ==
  LET p == UuidParse(id)
  IN  [val |-> UuidString(p.uuid), err |-> p.err]

UUID_MarshalJSON(u) ==
  IF UUID_IsZero(u) THEN JsonResult("nil", JsonNull)
  ELSE JsonResult("nil", JsonMarshalString(u))

\* Mutation: the token null is not recognised before parsing.
Mut_UUID_UnmarshalJSON_NoNull(u, data) ==
  LET p == UuidParse(data)
  IN  IF p.err # "nil" THEN DecodeResult(u, p.err)
      ELSE DecodeResult(UuidString(p.uuid), "nil")

\* uuid.ParseBytes is given the raw token, quotes included.
UUID_UnmarshalJSON(u, data) ==
  IF data = JsonNull THEN DecodeResult(<< >>, "nil")
  ELSE LET p == UuidParse(data)
       IN  IF p.err # "nil" THEN DecodeResult(u, p.err)
           ELSE DecodeResult(UuidString(p.uuid), "nil")

\* Mutation: the binary is written with the generic subtype.
Mut_UUID_MarshalBSONValue_Generic(u) ==
  IF UUID_IsZero(u) THEN BsonNullResult
  ELSE LET p == UuidParse(u)
       IN  IF p.err # "nil" THEN BsonErrResult(p.err)
           ELSE BsonResult("nil", BsonMarshalBinary(TypeBinaryGeneric, p.uuid))

\* Mutation: the UUID of 16 zero bytes is written as null, the way the zero
\* ObjectID is.
Mut_UUID_MarshalBSONValue_ZeroNull(u) ==
  IF UUID_IsZero(u) THEN BsonNullResult
  ELSE LET p == UuidParse(u)
       IN  IF p.err # "nil" THEN BsonErrResult(p.err)
           ELSE IF p.uuid = ZeroBytes(UuidSize) THEN BsonNullResult
           ELSE BsonResult("nil", BsonMarshalBinary(TypeBinaryUUID, p.uuid))

\* uid.MarshalBinary returns the 16 bytes and never fails.
UUID_MarshalBSONValue(u) ==
  IF UUID_IsZero(u) THEN BsonNullResult
  ELSE LET p == UuidParse(u)
       IN  IF p.err # "nil" THEN BsonErrResult(p.err)
           ELSE BsonResult("nil", BsonMarshalBinary(TypeBinaryUUID, p.uuid))

\* Mutation: the subtype of the binary is not looked at.
Mut_UUID_UnmarshalBSONValue_AnySubtype(u, typ, data) ==
  IF typ = TypeNull THEN DecodeResult(<< >>, "nil")
  ELSE IF typ # TypeBinary
    THEN DecodeResult(u, "wrong bson type expected binary")
  ELSE LET bin == BsonUnmarshalBinary(data)
       IN  IF bin.err # "nil" THEN DecodeResult(u, bin.err)
           ELSE LET p == UuidFromBytes(bin.data)
                IN  IF p.err # "nil" THEN DecodeResult(u, p.err)
                    ELSE DecodeResult(UuidString(p.uuid), "nil")

UUID_UnmarshalBSONValue(u, typ, data) ==
  IF typ = TypeNull THEN DecodeResult(<< >>, "nil")
  ELSE IF typ # TypeBinary
    THEN DecodeResult(u, "wrong bson type expected binary")
  ELSE LET bin == BsonUnmarshalBinary(data)
       IN  IF bin.err # "nil" THEN DecodeResult(u, bin.err)
           ELSE IF bin.subtype # TypeBinaryUUID
             THEN DecodeResult(u, "wrong subtype")
           ELSE LET p == UuidFromBytes(bin.data)
                IN  IF p.err # "nil" THEN DecodeResult(u, p.err)
                    ELSE DecodeResult(UuidString(p.uuid), "nil")

-----------------------------------------------------------------------------
(* types.Binary: a []byte, [isNil, bytes]; the nil slice has no bytes.     *)

NilBinary == [isNil |-> TRUE, bytes |-> << >>]

BinaryOf(b) == [isNil |-> FALSE, bytes |-> b]

Binary_MarshalJSON(b) ==
  IF Len(b.bytes) = 0 THEN JsonResult("nil", JsonNull)
  ELSE JsonResult("nil", JsonMarshalString(Base64Encode(b.bytes)))

\* Mutation: the empty string is decoded like any other string.
Mut_Binary_UnmarshalJSON_EmptyDecoded(b, data) ==
  IF Len(data) = 0 THEN DecodeResult(NilBinary, "nil")
  ELSE LET j == JsonUnmarshalString(data)
       IN  IF j.err # "nil" THEN DecodeResult(b, j.err)
           ELSE LET d == Base64Decode(j.val)
                IN  IF d.err # "nil" THEN DecodeResult(b, d.err)
                    ELSE DecodeResult(BinaryOf(d.bytes), "nil")

Binary_UnmarshalJSON(b, data) ==
  IF Len(data) = 0 THEN DecodeResult(NilBinary, "nil")
  ELSE LET j == JsonUnmarshalString(data)
       IN  IF j.err # "nil" THEN DecodeResult(b, j.err)
           ELSE IF Len(j.val) = 0 THEN DecodeResult(NilBinary, "nil")
           ELSE LET d == Base64Decode(j.val)
                IN  IF d.err # "nil" THEN DecodeResult(b, d.err)
                    ELSE DecodeResult(BinaryOf(d.bytes), "nil")

Binary_MarshalBSONValue(b) ==
  IF Len(b.bytes) = 0 THEN BsonNullResult
  ELSE BsonResult("nil", BsonMarshalBinary(TypeBinaryGeneric, b.bytes))

Binary_UnmarshalBSONValue(b, typ, data) ==
  IF typ = TypeNull THEN DecodeResult(NilBinary, "nil")
  ELSE IF typ # TypeBinary
    THEN DecodeResult(b, "wrong bson type expected binary")
  ELSE LET prim == BsonUnmarshalBinary(data)
       IN  IF prim.err # "nil" THEN DecodeResult(b, prim.err)
           ELSE IF prim.subtype # TypeBinaryGeneric
             THEN DecodeResult(b, "wrong bson subtype expected generic")
           ELSE DecodeResult(BinaryOf(prim.data), "nil")

-----------------------------------------------------------------------------
(* types.NullString (string.go) and the nullable numbers (number.go)       *)

NullString_MarshalJSON(v) ==
  IF Len(v) = 0 THEN JsonResult("nil", JsonNull)
  ELSE JsonResult("nil", JsonMarshalString(v))

NullString_MarshalBSONValue(v) ==
  IF Len(v) = 0 THEN BsonNullResult
  ELSE BsonResult("nil", BsonMarshalString(v))

\* Mutation: the comparison with zero is made on the float32.
Mut_NullFloat32_MarshalJSON_NarrowFirst(v) ==
  IF FloatIsZero(Narrow32(v)) THEN JsonResult("nil", JsonNull)
  ELSE JsonMarshalFloat(Narrow32(v), 32)

NullFloat32_MarshalJSON(v) ==
  IF FloatIsZero(v) THEN JsonResult("nil", JsonNull)
  ELSE JsonMarshalFloat(Narrow32(v), 32)

NullFloat32_MarshalBSONValue(v) ==
  IF FloatIsZero(v) THEN BsonNullResult
  ELSE BsonResult("nil", BsonMarshalFloat(Narrow32(v)))

NullFloat64_MarshalJSON(v) ==
  IF FloatIsZero(v) THEN JsonResult("nil", JsonNull)
  ELSE JsonMarshalFloat(FloatNorm(v), 64)

NullFloat64_MarshalBSONValue(v) ==
  IF FloatIsZero(v) THEN BsonNullResult
  ELSE BsonResult("nil", BsonMarshalFloat(FloatNorm(v)))

\* Mutation: zero is not mapped to null.
Mut_NullInt32_MarshalJSON_NoNull(v) == JsonResult("nil", JsonMarshalInt(v))

NullInt32_MarshalJSON(v) ==
  IF IntIsZero(v) THEN JsonResult("nil", JsonNull)
  ELSE JsonResult("nil", JsonMarshalInt(v))

NullInt32_MarshalBSONValue(v) ==
  IF IntIsZero(v) THEN BsonNullResult
  ELSE BsonResult("nil", BsonMarshalInt32(v))

\* Mutation: the value goes through an int32 on its way to json.Marshal.
Mut_NullInt64_MarshalJSON_Truncated(v) ==
  IF IntIsZero(v) THEN JsonResult("nil", JsonNull)
  ELSE JsonResult("nil", JsonMarshalInt(SubSeq(v, 5, 8)))

NullInt64_MarshalJSON(v) ==
  IF IntIsZero(v) THEN JsonResult("nil", JsonNull)
  ELSE JsonResult("nil", JsonMarshalInt(v))

\* Mutation: a value that fits an int32 is written as one.
Mut_NullInt64_MarshalBSONValue_MinSize(v) ==
  IF IntIsZero(v) THEN BsonNullResult
  ELSE IF SubSeq(v, 1, 4) = << 0, 0, 0, 0 >> /\ v[5] < 128
    THEN BsonResult("nil", BsonMarshalInt32(SubSeq(v, 5, 8)))
  ELSE BsonResult("nil", BsonMarshalInt64(v))

NullInt64_MarshalBSONValue(v) ==
  IF IntIsZero(v) THEN BsonNullResult
  ELSE BsonResult("nil", BsonMarshalInt64(v))

-----------------------------------------------------------------------------
(* The values and inputs the operations are run on.                        *)

-----------------------------------------------------------------------------
(* Decoding into NullString and the nullable numbers.  The types define no *)
(* decoder, so json.Unmarshal and bson.UnmarshalValue treat a destination  *)
(* of these types as the string, integer or float it is underneath.        *)

\* A JSON number without fraction or exponent: -? (0 | [1-9][0-9]*).
IsIntLiteral(t) ==
  LET digits == IF Len(t) > 0 /\ t[1] = "-" THEN Tail(t) ELSE t
  IN  /\ Len(digits) >= 1
      /\ \A i \in 1..Len(digits) : IndexOf(hextable, digits[i]) \in 1..10
      /\ Len(digits) > 1 => digits[1] # "0"

\* b * m + c over the big-endian bytes b, with the carry out of them.
RECURSIVE MulAdd(_, _, _)
MulAdd(b, m, c) ==
  IF b = << >> THEN [bytes |-> << >>, carry |-> c]
  ELSE LET n    == Len(b)
           t    == b[n] * m + c
           rest == MulAdd(SubSeq(b, 1, n - 1), m, t \div 256)
       IN  [bytes |-> rest.bytes \o << t % 256 >>, carry |-> rest.carry]

\* The number of a sequence of decimal digits (a small one).
RECURSIVE DigitsValue(_)
DigitsValue(digits) ==
  IF digits = << >> THEN 0
  ELSE 10 * DigitsValue(SubSeq(digits, 1, Len(digits) - 1))
       + IndexOf(hextable, digits[Len(digits)]) - 1

\* strconv.ParseUint of decimal digits into n bytes: the value, and
\* whether it is out of range.  The digits are taken four at a time.
RECURSIVE ParseUint(_, _)
ParseUint(digits, n) ==
  IF digits = << >> THEN [val |-> ZeroBytes(n), range |-> FALSE]
  ELSE LET k    == Len(digits)
           w    == IF k < 4 THEN k ELSE 4
           head == ParseUint(SubSeq(digits, 1, k - w), n)
           step == MulAdd(head.val, 10 ^ w,
                          DigitsValue(SubSeq(digits, k - w + 1, k)))
       IN  IF head.range THEN head
           ELSE [val |-> step.bytes, range |-> step.carry # 0]

\* strconv.ParseInt(t, 10, 8 * n) of an integer literal.
ParseInt(t, n) ==
  LET neg == t[1] = "-"
      u   == ParseUint(IF neg THEN Tail(t) ELSE t, n)
      min == u.val = << 128 >> \o ZeroBytes(n - 1)
  IN  IF u.range \/ (u.val[1] >= 128 /\ ~(neg /\ min))
        THEN [err |-> "value out of range", val |-> ZeroBytes(n)]
        ELSE [err |-> "nil", val |-> IF neg THEN IntNegate(u.val) ELSE u.val]

\* A JSON number -? digits (. digits)?, without exponent.
IsDecimalLiteral(t) ==
  LET body == IF Len(t) > 0 /\ t[1] = "-" THEN Tail(t) ELSE t
      dot  == IndexOf(body, ".")
      int  == IF dot = 0 THEN body ELSE SubSeq(body, 1, dot - 1)
      frac == IF dot = 0 THEN << >> ELSE SubSeq(body, dot + 1, Len(body))
  IN  /\ IsIntLiteral(int)
      /\ dot # 0 => Len(frac) >= 1
      /\ \A i \in 1..Len(frac) : IndexOf(hextable, frac[i]) \in 1..10

\* strconv.ParseFloat(t, 64) of a decimal literal whose value N / 10^k is
\* a dyadic rational, N / 5^k * 2^-k; the rounding of the other literals
\* is outside the values the model represents.
ParseFloat(t) ==
  LET neg  == t[1] = "-"
      body == IF neg THEN Tail(t) ELSE t
      dot  == IndexOf(body, ".")
      k    == IF dot = 0 THEN 0 ELSE Len(body) - dot
      N    == DigitsValue(SelectSeq(body, LAMBDA c : c # "."))
  IN  CASE N % (5 ^ k) = 0 ->
        FloatNorm([neg |-> neg, m |-> N \div (5 ^ k), e |-> -k, inf |-> FALSE])

JsonTypeError == "json: cannot unmarshal into Go value"

\* json.Unmarshal(data, &v) for v of a string, integer or float type: null
\* has no effect on v, a literal of the type is stored, and everything
\* else is an error that leaves v alone.
JsonUnmarshalNullable(T, d, data) ==
  LET t == JsonTrim(data)
  IN  IF t = JsonNull THEN DecodeResult(d, "nil")
      ELSE CASE T = "NullString" ->
                  LET j == JsonUnmarshalString(data)
                  IN  IF j.err # "nil" THEN DecodeResult(d, j.err)
                      ELSE DecodeResult(j.val, "nil")
             [] T \in {"NullInt32", "NullInt64"} ->
                  IF ~IsIntLiteral(t) THEN DecodeResult(d, JsonTypeError)
                  ELSE LET p == ParseInt(t, Len(d))
                       IN  IF p.err # "nil" THEN DecodeResult(d, JsonTypeError)
                           ELSE DecodeResult(p.val, "nil")
             [] T \in {"NullFloat32", "NullFloat64"} ->
                  IF ~IsDecimalLiteral(t) THEN DecodeResult(d, JsonTypeError)
                  ELSE DecodeResult(ParseFloat(t), "nil")

\* The number of a sequence of bits, most significant first.
RECURSIVE BitsValue(_)
BitsValue(b) ==
  IF b = << >> THEN 0
  ELSE 2 * BitsValue(SubSeq(b, 1, Len(b) - 1)) + b[Len(b)]

\* A sequence of bits without the zeros at its end.
RECURSIVE StripZeros(_)
StripZeros(b) ==
  IF b = << >> \/ b[Len(b)] = 1 THEN b
  ELSE StripZeros(SubSeq(b, 1, Len(b) - 1))

\* The bits of a sequence of bytes, each byte highest bit first.
RECURSIVE BitsOfBytes(_)
BitsOfBytes(b) ==
  IF b = << >> THEN << >> ELSE Bits(b[1], 8) \o BitsOfBytes(Tail(b))

\* math.Float64frombits of the 8 little-endian bytes of a double that is
\* zero, an infinity, or normal.
Float64FromBytes(data) ==
  LET bits == BitsOfBytes(Reverse(data))
      neg  == bits[1] = 1
      exp  == BitsValue(SubSeq(bits, 2, 12))
      frac == StripZeros(SubSeq(bits, 13, 64))
  IN  CASE exp = 0 /\ frac = << >> ->
             [neg |-> neg, m |-> 0, e |-> 0, inf |-> FALSE]
        [] exp = 2047 /\ frac = << >> ->
             [neg |-> neg, m |-> 0, e |-> 0, inf |-> TRUE]
        [] exp \in 1..2046 ->
             [neg |-> neg, m |-> BitsValue(<< 1 >> \o frac),
              e |-> exp - 1023 - Len(frac), inf |-> FALSE]

\* The characters of the bytes of a string.
StringOfBytes(b) ==
  [i \in 1..Len(b) |-> IF b[i] = 10 THEN "\n" ELSE AsciiPrintable[b[i] - 31]]

TypeArray == 4

\* The BSON type a value of each of these Go types is written as.
NativeType(T) ==
  CASE T = "NullString" -> TypeString
    [] T = "NullInt32"  -> TypeInt32
    [] T = "NullInt64"  -> TypeInt64
    [] T \in {"NullFloat32", "NullFloat64"} -> TypeDouble

\* bson.UnmarshalValue(t, data, &v) for v of a string, integer or float
\* type and a value that is null, of the BSON type of v, or an array: the
\* default decoders read null as the zero value, a value of the type as
\* it is, and refuse an array, leaving v alone.
BsonUnmarshalNullable(T, d, typ, data) ==
  IF typ = TypeNull THEN
    DecodeResult(CASE T = "NullString" -> << >>
                   [] T \in {"NullInt32", "NullInt64"} -> ZeroBytes(Len(d))
                   [] OTHER -> [neg |-> FALSE, m |-> 0, e |-> 0, inf |-> FALSE],
                 "nil")
  ELSE IF typ # NativeType(T) THEN DecodeResult(d, "cannot decode array")
  ELSE CASE T = "NullString" ->
              IF Len(data) < 5 \/ ReadLE32(SubSeq(data, 1, 4)) # Len(data) - 4
                   \/ data[Len(data)] # 0
                THEN DecodeResult(d, "bson: malformed string")
                ELSE DecodeResult(StringOfBytes(SubSeq(data, 5, Len(data) - 1)),
                                  "nil")
         [] T \in {"NullInt32", "NullInt64"} ->
              IF Len(data) < Len(d) THEN DecodeResult(d, "not enough bytes")
              ELSE DecodeResult(Reverse(SubSeq(data, 1, Len(d))), "nil")
         [] T \in {"NullFloat32", "NullFloat64"} ->
              IF Len(data) < 8 THEN DecodeResult(d, "not enough bytes")
              ELSE DecodeResult(Float64FromBytes(SubSeq(data, 1, 8)), "nil")

\* The identifier of the tests, canonical.
OidA ==
  << "6", "5", "5", "5", "d", "2", "c", "c", "4", "f", "c", "e", "4", "9",
     "f", "4", "6", "4", "c", "2", "f", "6", "8", "3" >>

\* Another canonical identifier.
OidB ==
  << "6", "6", "c", "c", "9", "c", "a", "8", "c", "0", "4", "2", "f", "7",
     "a", "7", "3", "2", "b", "7", "f", "c", "2", "a" >>

\* OidA in upper case, and one in mixed case.
OidUpper ==
  << "6", "5", "5", "5", "D", "2", "C", "C", "4", "F", "C", "E", "4", "9",
     "F", "4", "6", "4", "C", "2", "F", "6", "8", "3" >>

OidMixed ==
  << "6", "6", "c", "c", "9", "C", "A", "8", "c", "0", "4", "2", "F", "7",
     "a", "7", "3", "2", "b", "7", "f", "C", "2", "A" >>

\* Not identifiers: too short, not hex, 24 characters with one that is no
\* hex digit, 26 hex digits, and a text json.Marshal has to escape.
OidShort ==
  << "f", "4", "7", "a", "c", "1", "0", "b" >>

OidNotHex ==
  << "x", "x", "x" >>

OidBadDigit ==
  << "6", "5", "5", "5", "d", "2", "c", "c", "4", "f", "c", "e", "4", "9",
     "f", "4", "6", "4", "c", "2", "f", "6", "8", "g" >>

OidLong ==
  << "6", "5", "5", "5", "d", "2", "c", "c", "4", "f", "c", "e", "4", "9",
     "f", "4", "6", "4", "c", "2", "f", "6", "8", "3", "0", "0" >>

OidQuote ==
  << "a", "\"", "b", "\\", "<" >>

\* The strings an ObjectId is converted from, ObjectId(s), or parsed from.
ObjectIdStrings ==
  { << >>, OidA, OidB, OidUpper, OidMixed, NilObjectID, OidShort, OidNotHex,
    OidBadDigit, OidLong, OidQuote }

\* The UUID of the tests, canonical.
UuidA ==
  << "f", "4", "7", "a", "c", "1", "0", "b", "-", "5", "8", "c", "c", "-",
     "0", "3", "7", "2", "-", "8", "5", "6", "7", "-", "0", "e", "0", "2",
     "b", "2", "c", "3", "d", "4", "7", "9" >>

\* Another canonical UUID.
UuidB ==
  << "9", "f", "5", "3", "f", "3", "9", "d", "-", "6", "2", "b", "6", "-",
     "4", "3", "a", "c", "-", "a", "2", "6", "7", "-", "f", "2", "5", "8",
     "4", "8", "7", "3", "9", "a", "e", "b" >>

\* UuidA in upper case.
UuidUpper ==
  << "F", "4", "7", "A", "C", "1", "0", "B", "-", "5", "8", "C", "C", "-",
     "0", "3", "7", "2", "-", "8", "5", "6", "7", "-", "0", "E", "0", "2",
     "B", "2", "C", "3", "D", "4", "7", "9" >>

\* The nil UUID.
NilUuid ==
  << "0", "0", "0", "0", "0", "0", "0", "0", "-", "0", "0", "0", "0", "-",
     "0", "0", "0", "0", "-", "0", "0", "0", "0", "-", "0", "0", "0", "0",
     "0", "0", "0", "0", "0", "0", "0", "0" >>

\* The other forms uuid.Parse reads: 32 hex digits, the URN, braces.
UuidHex32 ==
  << "f", "4", "7", "a", "c", "1", "0", "b", "5", "8", "c", "c", "0", "3",
     "7", "2", "8", "5", "6", "7", "0", "e", "0", "2", "b", "2", "c", "3",
     "d", "4", "7", "9" >>

UuidUrn ==
  << "u", "r", "n", ":", "u", "u", "i", "d", ":", "f", "4", "7", "a", "c",
     "1", "0", "b", "-", "5", "8", "c", "c", "-", "0", "3", "7", "2", "-",
     "8", "5", "6", "7", "-", "0", "e", "0", "2", "b", "2", "c", "3", "d",
     "4", "7", "9" >>

UuidBraces ==
  << "{", "f", "4", "7", "a", "c", "1", "0", "b", "-", "5", "8", "c", "c",
     "-", "0", "3", "7", "2", "-", "8", "5", "6", "7", "-", "0", "e", "0",
     "2", "b", "2", "c", "3", "d", "4", "7", "9", "}" >>

\* Not UUIDs: 4 characters, 34 characters, 36 with a bad last pair, 36
\* without the dashes in place, 32 with a bad pair, a bad URN prefix.
UuidNotHex ==
  << "x", "x", "x", "x" >>

UuidShort ==
  << "f", "4", "7", "a", "c", "1", "0", "b", "-", "5", "8", "c", "c", "-",
     "0", "3", "7", "2", "-", "8", "5", "6", "7", "-", "0", "e", "0", "2",
     "b", "2", "c", "3", "d", "4" >>

UuidBadPair ==
  << "f", "4", "7", "a", "c", "1", "0", "b", "-", "5", "8", "c", "c", "-",
     "0", "3", "7", "2", "-", "8", "5", "6", "7", "-", "0", "e", "0", "2",
     "b", "2", "c", "3", "d", "4", "z", "z" >>

UuidNoDash ==
  << "f", "4", "7", "a", "c", "1", "0", "b", "0", "5", "8", "c", "c", "-",
     "0", "3", "7", "2", "-", "8", "5", "6", "7", "-", "0", "e", "0", "2",
     "b", "2", "c", "3", "d", "4", "7", "9" >>

UuidBadHex32 ==
  << "f", "4", "7", "a", "c", "1", "0", "b", "5", "8", "c", "c", "0", "3",
     "7", "2", "z", "z", "6", "7", "0", "e", "0", "2", "b", "2", "c", "3",
     "d", "4", "7", "9" >>

UuidBadUrn ==
  << "u", "r", "n", ":", "u", "u", "i", "x", ":", "f", "4", "7", "a", "c",
     "1", "0", "b", "-", "5", "8", "c", "c", "-", "0", "3", "7", "2", "-",
     "8", "5", "6", "7", "-", "0", "e", "0", "2", "b", "2", "c", "3", "d",
     "4", "7", "9" >>

\* The strings a UUID is converted from, UUID(s), or parsed from.
UuidStrings ==
  { << >>, UuidA, UuidB, UuidUpper, NilUuid, UuidHex32, UuidUrn, UuidBraces,
    UuidNotHex, UuidShort, UuidBadPair, UuidNoDash, UuidBadHex32, UuidBadUrn }

\* The longest Binary the model draws, and the bytes it is made of.
MaxBinLen == 3

ByteSamples == {0, 137, 255}

RECURSIVE ByteSeqs(_)
ByteSeqs(n) ==
  IF n = 0 THEN {<< >>}
  ELSE ByteSeqs(n - 1)
       \cup {<< b >> \o t : b \in ByteSamples,
                            t \in {u \in ByteSeqs(n - 1) : Len(u) = n - 1}}

\* The Binary values: the nil slice, the empty slice, 1..MaxBinLen bytes.
BinaryValues == {NilBinary} \cup {BinaryOf(b) : b \in ByteSeqs(MaxBinLen)}

NullStringValues == {<< >>, << "f", "o", "o" >>, OidQuote}

\* int32: 0, 1, -1, the maximum, the minimum, 65536, -256.
Int32Values ==
  { << 0, 0, 0, 0 >>, << 0, 0, 0, 1 >>, << 255, 255, 255, 255 >>,
    << 127, 255, 255, 255 >>, << 128, 0, 0, 0 >>, << 0, 1, 0, 0 >>,
    << 255, 255, 255, 0 >> }

\* int64: 0, 1, -1, the maximum, the minimum, 2^32, 2^31, -2^32.
Int64Values ==
  { << 0, 0, 0, 0, 0, 0, 0, 0 >>, << 0, 0, 0, 0, 0, 0, 0, 1 >>,
    << 255, 255, 255, 255, 255, 255, 255, 255 >>,
    << 127, 255, 255, 255, 255, 255, 255, 255 >>,
    << 128, 0, 0, 0, 0, 0, 0, 0 >>, << 0, 0, 0, 1, 0, 0, 0, 0 >>,
    << 0, 0, 0, 0, 128, 0, 0, 0 >>, << 255, 255, 255, 255, 0, 0, 0, 0 >> }

Float(n, m, e) == [neg |-> n, m |-> m, e |-> e, inf |-> FALSE]

\* float64: 0, -0, 1.5, -1.5, 0.3125, 2^200 and 2^-200 (outside the float32
\* range), and values around the smallest float32, 2^-149.
FloatValues ==
  { Float(FALSE, 0, 0), Float(TRUE, 0, 0), Float(FALSE, 3, -1),
    Float(TRUE, 3, -1), Float(FALSE, 5, -4), Float(FALSE, 1, 200),
    Float(FALSE, 1, -200), Float(TRUE, 1, -200), Float(FALSE, 1, -149),
    Float(FALSE, 1, -150), Float(FALSE, 3, -150), Float(FALSE, 3, -151) }

\* The wrapper types, and the values a variable of each is given by a
\* conversion T(x) or a literal.
Types ==
  { "ObjectId", "UUID", "Binary", "NullString", "NullInt32", "NullInt64",
    "NullFloat32", "NullFloat64" }

ValuesOf(T) ==
  CASE T = "ObjectId"    -> ObjectIdStrings
    [] T = "UUID"        -> UuidStrings
    [] T = "Binary"      -> BinaryValues
    [] T = "NullString"  -> NullStringValues
    [] T = "NullInt32"   -> Int32Values
    [] T = "NullInt64"   -> Int64Values
    [] T = "NullFloat32" -> FloatValues
    [] T = "NullFloat64" -> FloatValues

\* The zero value of a type: what a declared, unset variable holds.
ZeroOf(T) ==
  CASE T \in {"ObjectId", "UUID", "NullString"} -> << >>
    [] T = "Binary"      -> NilBinary
    [] T = "NullInt32"   -> << 0, 0, 0, 0 >>
    [] T = "NullInt64"   -> << 0, 0, 0, 0, 0, 0, 0, 0 >>
    [] T \in {"NullFloat32", "NullFloat64"} -> Float(FALSE, 0, 0)

\* What a destination holds before a decoder is called on it: unset, or a
\* value of an earlier decode.
DestsOf(T) ==
  CASE T = "ObjectId" -> {<< >>, OidB}
    [] T = "UUID"     -> {<< >>, UuidB}
    [] T = "Binary"   -> {NilBinary, BinaryOf(<< 7 >>)}
    [] T = "NullString"  -> {<< >>, << "f", "o", "o" >>}
    [] T = "NullInt32"   -> {<< 0, 0, 0, 0 >>, << 0, 0, 0, 7 >>}
    [] T = "NullInt64"   -> {<< 0, 0, 0, 0, 0, 0, 0, 0 >>,
                             << 0, 0, 0, 0, 0, 0, 0, 7 >>}
    [] T \in {"NullFloat32", "NullFloat64"} ->
         {Float(FALSE, 0, 0), Float(FALSE, 3, -1)}

\* s between quotes, as it stands.
Quoted(s) == << "\"" >> \o s \o << "\"" >>

\* The JSON a decoder is handed: nothing, null, null after a space, the
\* strings above as JSON strings, base64 strings (good, unpadded, with a
\* character outside the alphabet, with an escaped line break, only a line
\* break), a lone quote, a bare word, true, numbers of 3 and of 32 digits,
\* an object.
JsonInputs ==
  { << >>, JsonNull, << " " >> \o JsonNull, << "\"" >>, << "x" >>,
    << "t", "r", "u", "e" >>, << "1", "2", "3" >>, << "{", "}" >>,
    [i \in 1..32 |-> hextable[(i % 10) + 1]],
    Quoted(<< "i", "Q", "=", "=" >>), Quoted(<< "A", "I", "n", "/" >>),
    Quoted(<< "A", "Q" >>), Quoted(<< "!", "!", "!", "!" >>),
    Quoted(<< "i", "Q", "\\", "n", "=", "=" >>), Quoted(<< "\\", "n" >>) }
  \cup {Quoted(s) : s \in ObjectIdStrings \cup UuidStrings}

\* A well-formed BSON binary payload.
BinaryPayload(subtype, data) == LE32(Len(data)) \o << subtype >> \o data

OidABytes == << 101, 85, 210, 204, 79, 206, 73, 244, 100, 194, 246, 131 >>

UuidABytes ==
  << 244, 122, 193, 11, 88, 204, 3, 114, 133, 103, 14, 2, 178, 195, 212, 121 >>

\* The BSON values a decoder is handed: null (with and without stray
\* bytes), object ids of 12, 13, 2 and 0 bytes and the all-zero one,
\* binaries of the subtypes 0, 2, 3 and 4 with 0, 2, 16 and 17 bytes, truncated
\* binaries, and values of other types (string, array, int32, type 0).
BsonInputs ==
  { BsonValue(TypeNull, << >>), BsonValue(TypeNull, << 1 >>),
    BsonValue(TypeObjectID, OidABytes),
    BsonValue(TypeObjectID, OidABytes \o << 9 >>),
    BsonValue(TypeObjectID, ZeroBytes(ObjectIDSize)),
    BsonValue(TypeObjectID, << 14, 2 >>), BsonValue(TypeObjectID, << >>),
    BsonValue(TypeObjectID, BinaryPayload(TypeBinaryUUID, UuidABytes)),
    BsonValue(TypeBinary, BinaryPayload(TypeBinaryUUID, UuidABytes)),
    BsonValue(TypeBinary, BinaryPayload(TypeBinaryUUID, ZeroBytes(UuidSize))),
    BsonValue(TypeBinary, BinaryPayload(3, UuidABytes)),
    BsonValue(TypeBinary, BinaryPayload(TypeBinaryGeneric, UuidABytes)),
    BsonValue(TypeBinary, BinaryPayload(TypeBinaryUUID, << 14, 2 >>)),
    BsonValue(TypeBinary, BinaryPayload(TypeBinaryUUID, UuidABytes \o << 9 >>)),
    BsonValue(TypeBinary, BinaryPayload(TypeBinaryGeneric, << 14, 2 >>)),
    BsonValue(TypeBinary, BinaryPayload(TypeBinaryGeneric, << >>)),
    BsonValue(TypeBinary, BinaryPayload(TypeBinaryUUID, << >>)),
    BsonValue(TypeBinary,
              BinaryPayload(TypeBinaryBinaryOld, LE32(2) \o << 14, 2 >>)),
    BsonValue(TypeBinary, OidABytes),
    BsonValue(TypeBinary, << 16, 0, 0, 0, 4, 244, 122 >>),
    BsonValue(TypeBinary, << 1, 0 >>), BsonValue(TypeBinary, << >>),
    BsonValue(TypeString, << 4, 0, 0, 0, 102, 111, 111, 0 >>),
    BsonValue(4, BinaryPayload(3, UuidABytes)),
    BsonValue(TypeInt32, << 16, 0, 0, 0 >>), BsonValue(0, OidABytes) }

-----------------------------------------------------------------------------
(* The state: dst is the variable the program works on, [T, v] with T its  *)
(* type and v its value; res is the record of the last call: the operation *)
(* op on type T, the receiver (for a decoder: the destination) before the  *)
(* call, the argument, the error, and the output (out and num for JSON or  *)
(* a text, typ and data for BSON, ret for a bool). A decoder fed the       *)
(* output of the preceding encoder has wire = TRUE and orig = the value    *)
(* that was encoded.                                                       *)
(*                                                                         *)
(* Every method is a function of its receiver and arguments alone, so a    *)
(* run is: from the fresh state a conversion, a constructor or a decoder   *)
(* takes its input from outside; an encoder is then called on whatever the *)
(* variable holds, and a decoder on what the encoder returned.             *)

NoCall ==
  [op |-> "none", T |-> "none", recv |-> << >>, arg |-> << >>,
   wire |-> FALSE, orig |-> [T |-> "none", v |-> << >>], err |-> "nil",
   out |-> << >>, num |-> << >>, typ |-> 0, data |-> << >>, ret |-> FALSE]

MarshalJSONCall(T, v, r) ==
  [NoCall EXCEPT !.op = "MarshalJSON", !.T = T, !.recv = v, !.err = r.err,
                 !.out = r.out, !.num = r.num]

MarshalBSONCall(T, v, r) ==
  [NoCall EXCEPT !.op = "MarshalBSONValue", !.T = T, !.recv = v,
                 !.err = r.err, !.typ = r.typ, !.data = r.data]

DecodeCall(op, T, d0, arg, w, r) ==
  [NoCall EXCEPT !.op = op, !.T = T, !.recv = d0, !.arg = arg, !.wire = w,
                 !.orig = IF w THEN [T |-> res.T, v |-> res.recv]
                          ELSE NoCall.orig,
                 !.err = r.err]

\* No call has been made yet.
Fresh == res.op = "none"

\* The JSON texts and BSON values a decoder can be called with: the inputs
\* above or, with w, the output of the encoder that was just called.
JsonArgs(w) ==
  IF w THEN IF res.op = "MarshalJSON" /\ res.err = "nil" THEN {res.out} ELSE {}
  ELSE IF Fresh THEN JsonInputs ELSE {}

BsonArgs(w) ==
  IF w THEN IF res.op = "MarshalBSONValue" /\ res.err = "nil"
              THEN {BsonValue(res.typ, res.data)} ELSE {}
  ELSE IF Fresh THEN BsonInputs ELSE {}

-----------------------------------------------------------------------------
(* The generators.                                                         *)
(*                                                                         *)
(* objectIdGenerator and uuidGenerator are the two package variables, each *)
(* holding a func() string.  A func value is one pointer: to the code for  *)
(* a function literal that captures nothing, to a heap-allocated closure   *)
(* for one that captures a variable (func() string { return newUserId }).  *)
(* A generator is [kind, out, id]: the default one, a literal returning    *)
(* the constant out, or the closure number id returning the captured out.  *)
(*                                                                         *)
(* The pointer is written and read without synchronisation.  A read of the *)
(* one word observes a value that was written to it, so stores and loads   *)
(* of the pointer interleave; the words of a closure are other locations,  *)
(* and a goroutine that reads the new pointer without a happens-before     *)
(* edge from the setter may still find them as the allocator left them:    *)
(* unpublished holds the closures [fn, by] whose initialising stores by    *)
(* goroutine by are not yet visible to the other goroutines.               *)
(*                                                                         *)
(* goroutine[g] is the constructor call that g is in.  lastSet[op] is the *)
(* generator that the setter for the constructor op was last called with,  *)
(* nset the number of setter calls, and returned the history of the        *)
(* constructor calls that have returned, in order.                         *)

Goroutines == {1, 2}

\* The goroutines that can make the next call: goroutine 1 is the name of
\* the one that makes the first.
Callers == IF nset = 0 /\ returned = << >> THEN {1} ELSE Goroutines

\* The number of calls of the setters and constructors in a run.
MaxCalls == 4

DefaultGenerator == [kind |-> "default", out |-> << >>, id |-> 0]

\* func() string { return "6555d2cc4fce49f464c2f683" }
Literal(s) == [kind |-> "literal", out |-> s, id |-> 0]

\* newUserId := "66cc9ca8c042f7a732b7fc2a"; func() string { return newUserId }
Closure(s) == [kind |-> "closure", out |-> s, id |-> 0]

\* The functions the setters are called with: the ones of the tests and of
\* the example, and ones that return no identifier and no UUID at all.
ObjectIdGenerators == {Closure(OidB), Literal(OidNotHex)}

UuidGenerators == {Literal(UuidA), Closure(<< >>)}

\* Evaluating the function literal: a closure is allocated at each call of
\* the setter.
Allocate(f) ==
  IF f.kind = "closure" THEN [f EXCEPT !.id = nset + 1] ELSE f

\* The first four bytes of a driver ObjectID are the seconds of the clock
\* and the next five are drawn once per process.
Timestamp == << 102, 204, 156, 168 >>

processUnique == << 192, 66, 247, 167, 50 >>

\* The driver's counter starts at a random value; its low 24 bits are used.
CounterModulus == 256 * 256 * 256

CounterStarts == {0, CounterModulus - 2}

Mut_bson_NewObjectID_NoCounter(c) ==
  HexEncode(Timestamp \o processUnique \o << 0, 0, 0 >>)

\* bson.NewObjectID() with the counter at c, then .Hex(): the counter is
\* incremented and the new value written to the last three bytes.
bson_NewObjectID(c) ==
  LET n == (c + 1) % CounterModulus
  IN  HexEncode(Timestamp \o processUnique
                \o << n \div 65536, (n \div 256) % 256, n % 256 >>)

\* uuid.NewString(): a random version 4 UUID in canonical form.
UuidV4 ==
  << "1", "b", "4", "e", "2", "8", "b", "a", "-", "2", "f", "a", "1", "-",
     "4", "1", "d", "2", "-", "8", "8", "3", "f", "-", "0", "0", "1", "6",
     "d", "3", "c", "c", "a", "4", "2", "7" >>

uuid_NewString == {UuidB, UuidV4}

Constructors == {"NewObjectId", "NewUuid"}

\* A call: the constructor, the pointer and the last set generator when
\* it was entered, whether that setter's stores were visible to the caller
\* then, the generators set while it ran, the pointer it read, and what
\* it returned.
Idle ==
  [pc |-> "idle", op |-> "none", atEntry |-> DefaultGenerator,
   expect |-> DefaultGenerator, hb |-> TRUE, during |-> {},
   fn |-> DefaultGenerator, outcome |-> "none", val |-> << >>]

\* The number of calls made so far.
Calls ==
  nset + Len(returned)
  + Cardinality({g \in Goroutines : goroutine[g].pc # "idle"})

\* g cannot see the words of the closure f yet.
Hidden(g, f) ==
  \E u \in unpublished : u.fn = f /\ u.by # g

\* The constructor calls that are in progress notice a setter of theirs.
Overlap(op, f) ==
  [h \in Goroutines |->
     IF goroutine[h].op = op
       THEN [goroutine[h] EXCEPT !.during = @ \cup {f}]
       ELSE goroutine[h]]

\* What a setter leaves behind besides the pointer: the closure it
\* allocated, and its trace in the history.
Installed(g, op, f) ==
  /\ unpublished' = IF f.kind = "closure"
                      THEN unpublished \cup {[fn |-> f, by |-> g]}
                      ELSE unpublished
  /\ lastSet' = [lastSet EXCEPT ![op] = f]
  /\ nset' = nset + 1
  /\ goroutine' = Overlap(op, f)

\* objectIdGenerator = g
SetObjectIdGenerator ==
  \E g \in Callers : \E lit \in ObjectIdGenerators :
    LET f == Allocate(lit)
    IN  /\ goroutine[g].pc = "idle"
        /\ Calls < MaxCalls
        /\ objectIdGenerator' = f
        /\ Installed(g, "NewObjectId", f)
        /\ UNCHANGED <<facade, dst, res, uuidGenerator, objectIDCounter, returned>>

Mut_SetUuidGenerator_CrossTalk ==
  \E g \in Callers : \E lit \in UuidGenerators :
    LET f == Allocate(lit)
    IN  /\ goroutine[g].pc = "idle"
        /\ Calls < MaxCalls
        /\ objectIdGenerator' = f
        /\ Installed(g, "NewUuid", f)
        /\ UNCHANGED <<facade, dst, res, uuidGenerator, objectIDCounter, returned>>

\* uuidGenerator = g
SetUuidGenerator ==
  \E g \in Callers : \E lit \in UuidGenerators :
    LET f == Allocate(lit)
    IN  /\ goroutine[g].pc = "idle"
        /\ Calls < MaxCalls
        /\ uuidGenerator' = f
        /\ Installed(g, "NewUuid", f)
        /\ UNCHANGED <<facade, dst, res, objectIdGenerator, objectIDCounter,
                       returned>>

\* The stores of g become visible to the other goroutines: in time, or at
\* once when g synchronises with them.
Publish ==
  \E g \in Goroutines :
    /\ \E u \in unpublished : u.by = g
    /\ unpublished' = {u \in unpublished : u.by # g}
    /\ UNCHANGED <<facade, dst, res, objectIdGenerator, uuidGenerator,
                   objectIDCounter, goroutine, lastSet, nset, returned>>

\* g calls the constructor op.  The record notes the pointer at that
\* moment, the generator last set for op, and whether that setter's stores
\* are visible to g.  Constructor calls only read the package variable and
\* so commute with one another: they are taken one at a time, and it is
\* the setters that run while a call is in progress.
Enter(g, op, ptr) ==
  /\ \A h \in Goroutines : goroutine[h].pc = "idle"
  /\ Calls < MaxCalls
  /\ goroutine' =
       [goroutine EXCEPT ![g] =
          [Idle EXCEPT !.pc = "entered", !.op = op, !.atEntry = ptr,
                       !.expect = lastSet[op],
                       !.hb = ~Hidden(g, lastSet[op])]]
  /\ UNCHANGED <<facade, dst, res, objectIdGenerator, uuidGenerator,
                 objectIDCounter, unpublished, lastSet, nset, returned>>

\* g reads the package variable.
Load(g, ptr) ==
  /\ goroutine[g].pc = "entered"
  /\ goroutine' = [goroutine EXCEPT ![g].pc = "loaded", ![g].fn = ptr]
  /\ UNCHANGED <<facade, dst, res, objectIdGenerator, uuidGenerator,
                 objectIDCounter, unpublished, lastSet, nset, returned>>

\* g calls through a pointer to a closure whose words it cannot see yet: the
\* code pointer reads as nil and the call panics, or the captured string
\* reads as the empty string.
TornOutcomes ==
  {[outcome |-> "panic", val |-> << >>], [outcome |-> "ok", val |-> << >>]}

\* What calling f in goroutine g can come to, given what the default
\* generator would return.
Outcomes(g, f, fresh) ==
  IF f.kind = "default" THEN {[outcome |-> "ok", val |-> v] : v \in fresh}
  ELSE IF Hidden(g, f) THEN TornOutcomes
  ELSE {[outcome |-> "ok", val |-> f.out]}

\* g calls the function it has read and returns its result, converted.
Return(g, op, r) ==
  /\ goroutine[g].pc = "loaded"
  /\ goroutine[g].op = op
  /\ goroutine' = [goroutine EXCEPT ![g] = Idle]
  /\ returned' = Append(returned,
                        [goroutine[g] EXCEPT !.pc = "returned",
                                             !.outcome = r.outcome,
                                             !.val = r.val])
  /\ UNCHANGED <<facade, dst, res, objectIdGenerator, uuidGenerator, unpublished,
                 lastSet, nset>>

\* return ObjectId(objectIdGenerator())
NewObjectId_Enter ==
  \E g \in Callers : Enter(g, "NewObjectId", objectIdGenerator)

NewObjectId_Load ==
  \E g \in Goroutines :
    /\ goroutine[g].op = "NewObjectId"
    /\ Load(g, objectIdGenerator)

NewObjectId_Return ==
  \E g \in Goroutines :
    LET f == goroutine[g].fn
    IN  /\ \E r \in Outcomes(g, f, {bson_NewObjectID(objectIDCounter)}) :
             Return(g, "NewObjectId", r)
        /\ objectIDCounter' = IF f.kind = "default"
                                THEN (objectIDCounter + 1) % CounterModulus
                                ELSE objectIDCounter

\* return UUID(uuidGenerator())
NewUuid_Enter ==
  \E g \in Callers : Enter(g, "NewUuid", uuidGenerator)

NewUuid_Load ==
  \E g \in Goroutines :
    /\ goroutine[g].op = "NewUuid"
    /\ Load(g, uuidGenerator)

NewUuid_Return ==
  \E g \in Goroutines :
    /\ \E r \in Outcomes(g, goroutine[g].fn, uuid_NewString) :
         Return(g, "NewUuid", r)
    /\ UNCHANGED objectIDCounter

\* The package as the program starts, with the driver's counter at c.
Globals(c) ==
  /\ objectIdGenerator = DefaultGenerator
  /\ uuidGenerator = DefaultGenerator
  /\ objectIDCounter = c
  /\ unpublished = {}
  /\ goroutine = [g \in Goroutines |-> Idle]
  /\ lastSet = [op \in Constructors |-> DefaultGenerator]
  /\ nset = 0
  /\ returned = << >>

-----------------------------------------------------------------------------
(* The connector (package mongodb).                                        *)
(*                                                                         *)
(* connectors is the connectors the program holds.  A connector is never   *)
(* written after it was made, so that two of them with the same fields are *)
(* not told apart: a *StdConnector is the record of its fields.  The names *)
(* of databases, collections and counters are atoms, of which the code     *)
(* examines the emptiness only; a context is an atom; a *mongo.Collection  *)
(* is the database and the name it was made from.  store is the database   *)
(* behind the driver, as far as the counters go: the documents that have a *)
(* field Current.  ret is the last operation on a collection that          *)
(* returned, with the driver calls it made; handed is the calls of         *)
(* GetNextSeq that returned, each kind of them with the number of times it *)
(* happened; seqCall is the calls of GetNextSeq in progress.               *)

MaxSeqCalls == 2

nil == [ptr |-> FALSE, db |-> "", name |-> ""]

\* database.Collection(coll)
mongo_Collection(db, coll) == [ptr |-> TRUE, db |-> db, name |-> coll]

context_TODO == "context.TODO()"
Contexts == {context_TODO, "context.Background()"}
Clients == {"mongodb://127.0.0.1/mydb"}
Databases == {"mydb"}
CollectionNames == {"Users", "Counters"}

ErrNoCollectionSet == "no collection set"
ErrDriver == "driver error"
NoError == "nil"

Mut_StdConnector_New_Collection(uri, database) ==
  [client |-> uri, database |-> database,
   collection |-> mongo_Collection(database, ""), context |-> context_TODO]

\* conn := StdConnector{client: client, database: client.Database(...),
\*                      context: context.TODO()}
StdConnector_New(uri, database) ==
  [client |-> uri, database |-> database, collection |-> nil,
   context |-> context_TODO]

\* mongo.Connect fails, or the connector of the client and of its database is
\* returned.
NewConnector ==
  \E uri \in Clients : \E database \in Databases :
  \E err \in {NoError, ErrDriver} :
    /\ connectors' = IF err # NoError THEN connectors
                     ELSE connectors \cup {StdConnector_New(uri, database)}
    /\ UNCHANGED <<dst, res, globals, store, seqCall, ret, handed>>

Mut_StdConnector_WithContext_NoCollection(conn, ctx) ==
  [conn EXCEPT !.context = ctx, !.collection = nil]

\* newConn := *conn; newConn.context = ctx; return &newConn
StdConnector_WithContext(conn, ctx) ==
  [conn EXCEPT !.context = ctx]

Mut_StdConnector_WithCollection_Fresh(conn, coll) ==
  [conn EXCEPT !.collection = mongo_Collection(conn.database, coll),
               !.context = context_TODO]

\* newConn := *conn; newConn.collection = conn.database.Collection(coll)
StdConnector_WithCollection(conn, coll) ==
  [conn EXCEPT !.collection = mongo_Collection(conn.database, coll)]

Mut_Allocated_InPlace(conn, newConn) ==
  (connectors \ {conn}) \cup {newConn}

\* return &newConn: the copy is one more connector.
Allocated(conn, newConn) == connectors \cup {newConn}

WithContext ==
  \E conn \in connectors : \E ctx \in Contexts :
    /\ connectors' = Allocated(conn, StdConnector_WithContext(conn, ctx))
    /\ UNCHANGED <<dst, res, globals, store, seqCall, ret, handed>>

WithCollection ==
  \E conn \in connectors : \E coll \in CollectionNames :
    /\ connectors' = Allocated(conn, StdConnector_WithCollection(conn, coll))
    /\ UNCHANGED <<dst, res, globals, store, seqCall, ret, handed>>

\* The operations that need a collection: the driver operation each one
\* forwards to, whether it hands the connector's context to it, whether what
\* the driver returns is returned as it is ("same"), with a nil error beside it
\* ("value") or by the address of a copy ("address"), and what is returned
\* beside or around the error when there is no collection.
Forward(driver, context, result, none) ==
  [driver |-> driver, context |-> context, result |-> result, none |-> none]

Operations ==
  [Find |-> Forward(<<"Find">>, TRUE, "same", "nil"),
   FindOne |-> Forward(<<"FindOne">>, TRUE, "same", "SingleResult"),
   Count |-> Forward(<<"CountDocuments">>, TRUE, "same", "-1"),
   Distinct |-> Forward(<<"Distinct">>, TRUE, "value", "nil"),
   FindOneAndDelete |->
     Forward(<<"FindOneAndDelete">>, TRUE, "same", "SingleResult"),
   FindOneAndReplace |->
     Forward(<<"FindOneAndReplace">>, TRUE, "same", "SingleResult"),
   FindOneAndUpdate |->
     Forward(<<"FindOneAndUpdate">>, TRUE, "same", "SingleResult"),
   UpdateOne |-> Forward(<<"UpdateOne">>, TRUE, "same", "nil"),
   UpdateMany |-> Forward(<<"UpdateMany">>, TRUE, "same", "nil"),
   UpdateById |-> Forward(<<"UpdateByID">>, TRUE, "same", "nil"),
   ReplaceOne |-> Forward(<<"ReplaceOne">>, TRUE, "same", "nil"),
   InsertOne |-> Forward(<<"InsertOne">>, TRUE, "same", "nil"),
   InsertMany |-> Forward(<<"InsertMany">>, TRUE, "same", "nil"),
   DeleteOne |-> Forward(<<"DeleteOne">>, TRUE, "same", "nil"),
   DeleteMany |-> Forward(<<"DeleteMany">>, TRUE, "same", "nil"),
   Aggregate |-> Forward(<<"Aggregate">>, TRUE, "same", "nil"),
   SearchIndexes |-> Forward(<<"SearchIndexes">>, FALSE, "address", "nil"),
   CreateSearchIndex |->
     Forward(<<"SearchIndexes", "CreateOne">>, TRUE, "same", ""),
   Indexes |-> Forward(<<"Indexes">>, FALSE, "address", "nil"),
   CreateIndex |-> Forward(<<"Indexes", "CreateOne">>, TRUE, "same", ""),
   Drop |-> Forward(<<"Drop">>, TRUE, "same", "none"),
   Watch |-> Forward(<<"Watch">>, TRUE, "same", "nil")]

\* A call of the driver: the operation, the collection it is called on, the
\* context it is given and its other arguments.
DriverCall(driver, collection, ctx, args) ==
  [driver |-> driver, collection |-> collection, context |-> ctx,
   args |-> args]

\* What the driver returns from a call: a value that only this call returns,
\* and an error or none.
DriverResult(call, err) == [of |-> call, err |-> err]

NoDriverCall == DriverCall(<< >>, nil, "", << >>)

\* The arguments of the operations are handed on untouched: one atom stands
\* for a filter, a document, a pipeline or a model, another for the options.
Arguments == {<<"filter", "opts">>}

Mut_StdConnector_Call_Unguarded(conn, op, args, err) ==
  LET f == Operations[op]
      call == DriverCall(f.driver, conn.collection,
                         IF f.context THEN conn.context ELSE "", args)
  IN  [op |-> op, recv |-> conn, arg |-> args, calls |-> <<call>>,
       out |-> [how |-> f.result, val |-> DriverResult(call, err)],
       err |-> IF f.result = "same" THEN err ELSE NoError]

\* if conn.collection == nil { return ..., ErrNoCollectionSet }
\* return conn.collection.Op(conn.context, args...)
StdConnector_Call(conn, op, args, err) ==
  LET f == Operations[op]
      call == DriverCall(f.driver, conn.collection,
                         IF f.context THEN conn.context ELSE "", args)
  IN  IF conn.collection = nil
        THEN [op |-> op, recv |-> conn, arg |-> args, calls |-> << >>,
              out |-> [how |-> f.none,
                       val |-> DriverResult(NoDriverCall, NoError)],
              err |-> ErrNoCollectionSet]
        ELSE [op |-> op, recv |-> conn, arg |-> args, calls |-> <<call>>,
              out |-> [how |-> f.result, val |-> DriverResult(call, err)],
              err |-> IF f.result = "same" THEN err ELSE NoError]

\* The documents of the database that hold a field Current, and what a
\* program may have put there: the shell writes a number as a double, and a
\* field may hold any type.  A double is counted in halves.
Number(type, v) == [type |-> type, v |-> v]

Document(coll, id, current) == [coll |-> coll, _id |-> id, Current |-> current]

Seeds ==
  {Number("int64", 7), Number("float64", -3), Number("decimal128", 1),
   Number("string", 0)}

Documents == {<<Document("", "Users", Number("string", 0))>>}

ArgumentsOf(op) == IF op = "InsertOne" THEN Documents ELSE Arguments

ErrDuplicateKey == "E11000 duplicate key error"
ErrNoDocuments == "mongo: no documents in result"
ErrServer == "server error"
ErrDecode == "decode error"
ErrUnknownReturnType == "unknown return type"

Found(coll, id) == {d \in store : d.coll = coll /\ d._id = id}

\* The server applies $inc to a number, whatever its type, and to nothing
\* else.  (An int32 turns into an int64 beyond 2^31 - 1, out of reach here.)
IsNumeric(current) ==
  current.type \in {"int32", "int64", "float64", "decimal128"}

Mut_Inc_Lost(current, by) == current

Inc(current, by) ==
  IF current.type = "float64"
    THEN [current EXCEPT !.v = @ + 2 * by]
    ELSE [current EXCEPT !.v = @ + by]

\* What a call of the driver does to the database and what it returns, for
\* the operations whose effect on the counters is told by their arguments;
\* the other operations work on documents that are no counters.  Any call
\* that makes a round trip may fail before the server has acted.
Unsent == [err |-> ErrDriver, store |-> store]

mongo_InsertOne(coll, doc) ==
  IF Found(coll.name, doc._id) # {}
    THEN [err |-> ErrDuplicateKey, store |-> store]
    ELSE [err |-> NoError,
          store |-> store \cup {[doc EXCEPT !.coll = coll.name]}]

mongo_Drop(coll) ==
  [err |-> NoError, store |-> {d \in store : d.coll # coll.name}]

Driver(coll, op, args) ==
  IF ~Operations[op].context
    THEN {[err |-> NoError, store |-> store]}
    ELSE {Unsent,
          CASE op = "InsertOne" -> mongo_InsertOne(coll, args[1])
            [] op = "Drop" -> mongo_Drop(coll)
            [] OTHER -> [err |-> NoError, store |-> store]}

\* An operation of the connector that needs a collection, as a whole.
Call ==
  \E conn \in connectors : \E op \in DOMAIN Operations :
  \E args \in ArgumentsOf(op) :
  \E d \in Driver(conn.collection, op, args) :
    /\ ret' = StdConnector_Call(conn, op, args, d.err)
    /\ store' = IF ret'.calls = << >> THEN store ELSE d.store
    /\ UNCHANGED <<dst, res, globals, connectors, seqCall, handed>>

\* findAndModify, in one step of the server: the document with the _id of the
\* filter has its field Current incremented; there being none, one is
\* inserted if upsert is set; the document is returned as it is after the
\* update, or as it was before.
NoDocument == Number("none", 0)

FindOneAndUpdateOptions(upsert, after) ==
  [upsert |-> upsert, after |-> after, projection |-> "Current"]

Mut_mongo_FindOneAndUpdate_Before(coll, id, by, opts) ==
  LET old == Found(coll.name, id)
      d == CHOOSE d \in old : TRUE
  IN  IF old = {}
        THEN [err |-> ErrNoDocuments, doc |-> NoDocument,
              store |-> store \cup
                          {Document(coll.name, id, Number("int32", by))}]
        ELSE [err |-> NoError, doc |-> d.Current,
              store |-> (store \ {d}) \cup
                          {[d EXCEPT !.Current = Inc(@, by)]}]

mongo_FindOneAndUpdate(coll, id, by, opts) ==
  LET old == Found(coll.name, id)
      d == CHOOSE d \in old : TRUE
      new == Document(coll.name, id, Number("int32", by))
  IN  IF coll.name = ""
        THEN [err |-> ErrServer, doc |-> NoDocument, store |-> store]
      ELSE IF old = {}
        THEN IF opts.upsert
               THEN [err |-> IF opts.after THEN NoError ELSE ErrNoDocuments,
                     doc |-> IF opts.after THEN new.Current ELSE NoDocument,
                     store |-> store \cup {new}]
               ELSE [err |-> ErrNoDocuments, doc |-> NoDocument,
                     store |-> store]
      ELSE IF ~IsNumeric(d.Current)
        THEN [err |-> ErrServer, doc |-> NoDocument, store |-> store]
      ELSE [err |-> NoError,
            doc |-> IF opts.after THEN Inc(d.Current, by) ELSE d.Current,
            store |-> (store \ {d}) \cup
                        {[d EXCEPT !.Current = Inc(@, by)]}]

\* The server acts, or refuses to, and its reply is decoded, or the server
\* acts and its reply is one that Decode cannot read.
SingleResults(coll, id, by, opts) ==
  LET r == mongo_FindOneAndUpdate(coll, id, by, opts)
  IN  {[err |-> r.err, doc |-> r.doc, store |-> r.store, decodes |-> TRUE]}
      \cup
      IF r.err = NoError
        THEN {[err |-> NoError, doc |-> r.doc, store |-> r.store,
               decodes |-> FALSE]}
        ELSE {}

\* int(v) of a double, counted in halves: the fraction is cut off.
Trunc(h) == IF h >= 0 THEN h \div 2 ELSE -((-h) \div 2)

Returns(seq, err) == [seq |-> seq, err |-> err]

Mut_GetNextSeq_Switch_NoDefault(r) ==
  IF r.err # NoError THEN Returns(0, r.err)
  ELSE IF ~r.decodes THEN Returns(0, ErrDecode)
  ELSE CASE r.doc.type = "float64" -> Returns(Trunc(r.doc.v), NoError)
         [] OTHER -> Returns(r.doc.v, NoError)

\* var data bson.M; if err := res.Decode(&data); err != nil { return 0, err }
\* switch v := data["Current"].(type) { ... }
GetNextSeq_Switch(r) ==
  IF r.err # NoError THEN Returns(0, r.err)
  ELSE IF ~r.decodes THEN Returns(0, ErrDecode)
  ELSE CASE r.doc.type = "int32" -> Returns(r.doc.v, NoError)
         [] r.doc.type = "int64" -> Returns(r.doc.v, NoError)
         [] r.doc.type = "float64" -> Returns(Trunc(r.doc.v), NoError)
         [] OTHER -> Returns(0, ErrUnknownReturnType)

SeqNames == {"", "Users"}
SeqOpts == {<< >>, <<"Counters", "Users">>}

SeqIdle ==
  [pc |-> "idle", name |-> "", opts |-> << >>, id |-> "",
   coll |-> nil,
   res |-> [err |-> NoError, doc |-> NoDocument, decodes |-> FALSE]]

\* The calls that returned, and those that were started.
RECURSIVE Times(_)
Times(h) ==
  IF h = {} THEN 0
  ELSE LET x == CHOOSE x \in h : TRUE IN x.times + Times(h \ {x})

SeqCalls ==
  Times(handed) + Cardinality({g \in Goroutines : seqCall[g].pc # "idle"})

Mut_GetNextSeq_Name_Given(conn, name) == name

\* if len(name) == 0 { name = conn.collection.Name() }
GetNextSeq_Name(conn, name) ==
  IF name = "" THEN conn.collection.name ELSE name

Mut_GetNextSeq_Collection_Last(opts) ==
  IF Len(opts) > 0 THEN opts[Len(opts)] ELSE "Sequences"

\* seqCollection := "Sequences"; if len(opts) > 0 { seqCollection = opts[0] }
GetNextSeq_Collection(opts) ==
  IF Len(opts) > 0 THEN opts[1] ELSE "Sequences"

\* One more call has returned r from the counter id of coll, where the
\* server had answered doc.
Handed(coll, id, doc, r) ==
  LET h == [coll |-> coll, id |-> id, doc |-> doc, seq |-> r.seq,
            err |-> r.err]
      same == {x \in handed : [y \in DOMAIN h |-> x[y]] = h}
  IN  IF same = {}
        THEN handed \cup {h @@ [times |-> 1]}
        ELSE (handed \ same) \cup {[x EXCEPT !.times = @ + 1] : x \in same}

\* GetNextSeq up to and with the call of the driver, which is one step of the
\* server; what comes before it reads the connector and the arguments only.
\* Without a name and without a collection the call returns at once.
\*   conn.WithCollection(seqCollection).FindOneAndUpdate(filter, update,
\*     SetUpsert(true), SetReturnDocument(After), SetProjection(...))
GetNextSeq_FindOneAndUpdate ==
  /\ SeqCalls < MaxSeqCalls
  /\ \E g \in Goroutines :
       /\ seqCall[g].pc = "idle"
       /\ \A h \in Goroutines : h < g => seqCall[h].pc # "idle"
       /\ \E conn \in connectors : \E name \in SeqNames : \E opts \in SeqOpts :
            IF name = "" /\ conn.collection = nil
              THEN /\ handed' = Handed("", "", NoDocument,
                                       Returns(0, ErrNoCollectionSet))
                   /\ UNCHANGED <<seqCall, store>>
              ELSE LET tmp == StdConnector_WithCollection(
                                conn, GetNextSeq_Collection(opts))
                       id == GetNextSeq_Name(conn, name)
                   IN  \E r \in SingleResults(
                                  tmp.collection, id, 1,
                                  FindOneAndUpdateOptions(TRUE, TRUE)) :
                         /\ store' = r.store
                         /\ seqCall' =
                              [seqCall EXCEPT ![g] =
                                 [pc |-> "decode", name |-> name,
                                  opts |-> opts, id |-> id,
                                  coll |-> tmp.collection,
                                  res |-> [err |-> r.err, doc |-> r.doc,
                                           decodes |-> r.decodes]]]
                         /\ UNCHANGED handed
  /\ UNCHANGED <<dst, res, globals, connectors, ret>>

\* GetNextSeq from the result of the driver on.
GetNextSeq_Return ==
  \E g \in Goroutines :
    /\ seqCall[g].pc = "decode"
    /\ handed' = Handed(seqCall[g].coll.name, seqCall[g].id,
                        seqCall[g].res.doc, GetNextSeq_Switch(seqCall[g].res))
    /\ seqCall' = [seqCall EXCEPT ![g] = SeqIdle]
    /\ UNCHANGED <<dst, res, globals, connectors, store, ret>>

\* No connector yet, an empty database, no call.
NoReturn ==
  [op |-> "none", recv |-> StdConnector_New("", ""), arg |-> << >>,
   calls |-> << >>,
   out |-> [how |-> "none", val |-> DriverResult(NoDriverCall, NoError)],
   err |-> NoError]

Disconnected ==
  /\ connectors = {}
  /\ store = {}
  /\ seqCall = [g \in Goroutines |-> SeqIdle]
  /\ ret = NoReturn
  /\ handed = {}

-----------------------------------------------------------------------------
(* The calls of the encoders and decoders.                                 *)

\* The encoders and decoders never read the driver's counter; the
\* generators are started from either end of its range.
Init ==
  /\ dst = [T |-> "ObjectId", v |-> ZeroOf("ObjectId")]
  /\ res = NoCall
  /\ Globals(0)
  /\ Disconnected

\* var x T = T(v): a conversion from the underlying type, or a literal.
Convert ==
  \E T \in Types : \E v \in ValuesOf(T) :
    /\ Fresh
    /\ UNCHANGED <<globals, facade>>
    /\ dst' = [T |-> T, v |-> v]
    /\ res' = [NoCall EXCEPT !.op = "convert", !.T = T]

Call_ObjectIdFromHex ==
  \E s \in IF Fresh THEN ObjectIdStrings ELSE {} :
    LET r == ObjectIdFromHex(s)
    IN  /\ UNCHANGED <<globals, facade>>
        /\ dst' = [T |-> "ObjectId", v |-> r.val]
        /\ res' = [NoCall EXCEPT !.op = "ObjectIdFromHex", !.T = "ObjectId",
                                 !.arg = s, !.err = r.err]

\* ObjectIdFromHex(string(o)) for the ObjectId o that a successful
\* constructor or decoder has just produced.
Call_ObjectIdFromHex_OfValue ==
  /\ dst.T = "ObjectId"
  /\ res.T = "ObjectId"
  /\ res.op \in {"ObjectIdFromHex", "UnmarshalJSON", "UnmarshalBSONValue"}
  /\ res.err = "nil"
  /\ LET r == ObjectIdFromHex(dst.v)
     IN  /\ UNCHANGED <<globals, facade>>
         /\ dst' = [T |-> "ObjectId", v |-> r.val]
         /\ res' = [NoCall EXCEPT !.op = "ObjectIdFromHex", !.T = "ObjectId",
                                  !.arg = dst.v, !.wire = TRUE,
                                  !.err = r.err]

Call_UuidFromString ==
  \E s \in IF Fresh THEN UuidStrings ELSE {} :
    LET r == UuidFromString(s)
    IN  /\ UNCHANGED <<globals, facade>>
        /\ dst' = [T |-> "UUID", v |-> r.val]
        /\ res' = [NoCall EXCEPT !.op = "UuidFromString", !.T = "UUID",
                                 !.arg = s, !.err = r.err]

IsZeroCall(T, v, b) ==
  [NoCall EXCEPT !.op = "IsZero", !.T = T, !.recv = v, !.ret = b]

StringCall(T, v, s) ==
  [NoCall EXCEPT !.op = "String", !.T = T, !.recv = v, !.out = s]

\* The types without a decoder of their own.
NullableTypes ==
  {"NullString", "NullInt32", "NullInt64", "NullFloat32", "NullFloat64"}

\* The JSON handed to json.Unmarshal for a destination of such a type:
\* null, null after a space, true, and literals of the type that fit it
\* and that do not.
NullableJsonInputs(T) ==
  { JsonNull, << " " >> \o JsonNull, << "t", "r", "u", "e" >> }
  \cup CASE T = "NullString" ->
              { Quoted(<< >>), Quoted(<< "b", "a", "r" >>), << "7" >> }
         [] T = "NullInt32" ->
              { << "7" >>, << "-", "1" >>, << "1", ".", "5" >>,
                << "2", "1", "4", "7", "4", "8", "3", "6", "4", "7" >>,
                << "2", "1", "4", "7", "4", "8", "3", "6", "4", "8" >>,
                << "-", "2", "1", "4", "7", "4", "8", "3", "6", "4", "8" >> }
         [] T = "NullInt64" ->
              { << "7" >>, << "-", "1" >>, Quoted(<< "7" >>),
                << "9", "2", "2", "3", "3", "7", "2", "0", "3", "6", "8",
                   "5", "4", "7", "7", "5", "8", "0", "8" >> }
         [] T \in {"NullFloat32", "NullFloat64"} ->
              { << "3" >>, << "-", "1", ".", "5" >>,
                << "0", ".", "3", "1", "2", "5" >>, Quoted(<< "3" >>) }

\* The BSON values handed to bson.UnmarshalValue for such a destination:
\* null, values of the type, a truncated one, and an array.
NullableBsonInputs(T) ==
  { BsonValue(TypeNull, << >>), BsonValue(TypeArray, << 5, 0, 0, 0, 0 >>),
    BsonValue(NativeType(T), << 1 >>) }
  \cup CASE T = "NullString" ->
              { BsonValue(TypeString, << 4, 0, 0, 0, 102, 111, 111, 0 >>),
                BsonValue(TypeString, << 1, 0, 0, 0, 0 >>) }
         [] T = "NullInt32" ->
              { BsonValue(TypeInt32, << 255, 255, 255, 127 >>),
                BsonValue(TypeInt32, << 0, 0, 0, 0 >>) }
         [] T = "NullInt64" ->
              { BsonValue(TypeInt64, << 255, 255, 255, 255, 255, 255, 255, 127 >>),
                BsonValue(TypeInt64, << 0, 0, 0, 0, 0, 0, 0, 0 >>) }
         [] T \in {"NullFloat32", "NullFloat64"} ->
              { BsonValue(TypeDouble, << 0, 0, 0, 0, 0, 0, 248, 63 >>),
                BsonValue(TypeDouble, << 0, 0, 0, 0, 0, 0, 0, 0 >>),
                BsonValue(TypeDouble, << 0, 0, 0, 0, 0, 0, 240, 127 >>) }

\* json.Unmarshal(data, &v) for a variable v of one of these types.
Call_json_Unmarshal ==
  \E T \in IF Fresh THEN NullableTypes ELSE {} :
    \E d0 \in DestsOf(T), data \in NullableJsonInputs(T) :
      LET r == JsonUnmarshalNullable(T, d0, data)
      IN  /\ UNCHANGED <<globals, facade>>
          /\ dst' = [T |-> T, v |-> r.dst]
          /\ res' = DecodeCall("json.Unmarshal", T, d0, data, FALSE, r)

\* bson.UnmarshalValue(t, data, &v) for a variable v of one of these
\* types: a value from outside or the one its encoder has just written.
Call_bson_UnmarshalValue ==
  \E T \in NullableTypes, w \in BOOLEAN :
    \E d0 \in DestsOf(T) :
      \E b \in IF w THEN (IF res.T = T THEN BsonArgs(TRUE) ELSE {})
               ELSE (IF Fresh THEN NullableBsonInputs(T) ELSE {}) :
        LET r == BsonUnmarshalNullable(T, d0, b.typ, b.data)
        IN  /\ UNCHANGED <<globals, facade>>
            /\ dst' = [T |-> T, v |-> r.dst]
            /\ res' = DecodeCall("bson.UnmarshalValue", T, d0, b, w, r)

Call_ObjectId_IsZero ==
  /\ dst.T = "ObjectId"
  /\ res' = IsZeroCall(dst.T, dst.v, ObjectId_IsZero(dst.v))
  /\ UNCHANGED <<dst, globals, facade>>

Call_ObjectId_String ==
  /\ dst.T = "ObjectId"
  /\ res' = StringCall(dst.T, dst.v, ObjectId_String(dst.v))
  /\ UNCHANGED <<dst, globals, facade>>

Call_UUID_IsZero ==
  /\ dst.T = "UUID"
  /\ res' = IsZeroCall(dst.T, dst.v, UUID_IsZero(dst.v))
  /\ UNCHANGED <<dst, globals, facade>>

Call_UUID_String ==
  /\ dst.T = "UUID"
  /\ res' = StringCall(dst.T, dst.v, UUID_String(dst.v))
  /\ UNCHANGED <<dst, globals, facade>>

Call_ObjectId_MarshalJSON ==
  /\ dst.T = "ObjectId"
  /\ res' = MarshalJSONCall(dst.T, dst.v, ObjectId_MarshalJSON(dst.v))
  /\ UNCHANGED <<dst, globals, facade>>

Call_ObjectId_MarshalBSONValue ==
  /\ dst.T = "ObjectId"
  /\ res' = MarshalBSONCall(dst.T, dst.v, ObjectId_MarshalBSONValue(dst.v))
  /\ UNCHANGED <<dst, globals, facade>>

Call_ObjectId_UnmarshalJSON ==
  \E d0 \in DestsOf("ObjectId"), w \in BOOLEAN : \E data \in JsonArgs(w) :
    LET r == ObjectId_UnmarshalJSON(d0, data)
    IN  /\ UNCHANGED <<globals, facade>>
        /\ dst' = [T |-> "ObjectId", v |-> r.dst]
        /\ res' = DecodeCall("UnmarshalJSON", "ObjectId", d0, data, w, r)

Call_ObjectId_UnmarshalBSONValue ==
  \E d0 \in DestsOf("ObjectId"), w \in BOOLEAN : \E b \in BsonArgs(w) :
    LET r == ObjectId_UnmarshalBSONValue(d0, b.typ, b.data)
    IN  /\ UNCHANGED <<globals, facade>>
        /\ dst' = [T |-> "ObjectId", v |-> r.dst]
        /\ res' = DecodeCall("UnmarshalBSONValue", "ObjectId", d0, b, w, r)

Call_UUID_MarshalJSON ==
  /\ dst.T = "UUID"
  /\ res' = MarshalJSONCall(dst.T, dst.v, UUID_MarshalJSON(dst.v))
  /\ UNCHANGED <<dst, globals, facade>>

Call_UUID_MarshalBSONValue ==
  /\ dst.T = "UUID"
  /\ res' = MarshalBSONCall(dst.T, dst.v, UUID_MarshalBSONValue(dst.v))
  /\ UNCHANGED <<dst, globals, facade>>

Call_UUID_UnmarshalJSON ==
  \E d0 \in DestsOf("UUID"), w \in BOOLEAN : \E data \in JsonArgs(w) :
    LET r == UUID_UnmarshalJSON(d0, data)
    IN  /\ UNCHANGED <<globals, facade>>
        /\ dst' = [T |-> "UUID", v |-> r.dst]
        /\ res' = DecodeCall("UnmarshalJSON", "UUID", d0, data, w, r)

Call_UUID_UnmarshalBSONValue ==
  \E d0 \in DestsOf("UUID"), w \in BOOLEAN : \E b \in BsonArgs(w) :
    LET r == UUID_UnmarshalBSONValue(d0, b.typ, b.data)
    IN  /\ UNCHANGED <<globals, facade>>
        /\ dst' = [T |-> "UUID", v |-> r.dst]
        /\ res' = DecodeCall("UnmarshalBSONValue", "UUID", d0, b, w, r)

Call_Binary_MarshalJSON ==
  /\ dst.T = "Binary"
  /\ res' = MarshalJSONCall(dst.T, dst.v, Binary_MarshalJSON(dst.v))
  /\ UNCHANGED <<dst, globals, facade>>

Call_Binary_MarshalBSONValue ==
  /\ dst.T = "Binary"
  /\ res' = MarshalBSONCall(dst.T, dst.v, Binary_MarshalBSONValue(dst.v))
  /\ UNCHANGED <<dst, globals, facade>>

Call_Binary_UnmarshalJSON ==
  \E d0 \in DestsOf("Binary"), w \in BOOLEAN : \E data \in JsonArgs(w) :
    LET r == Binary_UnmarshalJSON(d0, data)
    IN  /\ UNCHANGED <<globals, facade>>
        /\ dst' = [T |-> "Binary", v |-> r.dst]
        /\ res' = DecodeCall("UnmarshalJSON", "Binary", d0, data, w, r)

Call_Binary_UnmarshalBSONValue ==
  \E d0 \in DestsOf("Binary"), w \in BOOLEAN : \E b \in BsonArgs(w) :
    LET r == Binary_UnmarshalBSONValue(d0, b.typ, b.data)
    IN  /\ UNCHANGED <<globals, facade>>
        /\ dst' = [T |-> "Binary", v |-> r.dst]
        /\ res' = DecodeCall("UnmarshalBSONValue", "Binary", d0, b, w, r)

Call_NullString_MarshalJSON ==
  /\ dst.T = "NullString"
  /\ res' = MarshalJSONCall(dst.T, dst.v, NullString_MarshalJSON(dst.v))
  /\ UNCHANGED <<dst, globals, facade>>

Call_NullString_MarshalBSONValue ==
  /\ dst.T = "NullString"
  /\ res' = MarshalBSONCall(dst.T, dst.v, NullString_MarshalBSONValue(dst.v))
  /\ UNCHANGED <<dst, globals, facade>>

Call_NullFloat32_MarshalJSON ==
  /\ dst.T = "NullFloat32"
  /\ res' = MarshalJSONCall(dst.T, dst.v, NullFloat32_MarshalJSON(dst.v))
  /\ UNCHANGED <<dst, globals, facade>>

Call_NullFloat32_MarshalBSONValue ==
  /\ dst.T = "NullFloat32"
  /\ res' = MarshalBSONCall(dst.T, dst.v, NullFloat32_MarshalBSONValue(dst.v))
  /\ UNCHANGED <<dst, globals, facade>>

Call_NullFloat64_MarshalJSON ==
  /\ dst.T = "NullFloat64"
  /\ res' = MarshalJSONCall(dst.T, dst.v, NullFloat64_MarshalJSON(dst.v))
  /\ UNCHANGED <<dst, globals, facade>>

Call_NullFloat64_MarshalBSONValue ==
  /\ dst.T = "NullFloat64"
  /\ res' = MarshalBSONCall(dst.T, dst.v, NullFloat64_MarshalBSONValue(dst.v))
  /\ UNCHANGED <<dst, globals, facade>>

Call_NullInt32_MarshalJSON ==
  /\ dst.T = "NullInt32"
  /\ res' = MarshalJSONCall(dst.T, dst.v, NullInt32_MarshalJSON(dst.v))
  /\ UNCHANGED <<dst, globals, facade>>

Call_NullInt32_MarshalBSONValue ==
  /\ dst.T = "NullInt32"
  /\ res' = MarshalBSONCall(dst.T, dst.v, NullInt32_MarshalBSONValue(dst.v))
  /\ UNCHANGED <<dst, globals, facade>>

Call_NullInt64_MarshalJSON ==
  /\ dst.T = "NullInt64"
  /\ res' = MarshalJSONCall(dst.T, dst.v, NullInt64_MarshalJSON(dst.v))
  /\ UNCHANGED <<dst, globals, facade>>

Call_NullInt64_MarshalBSONValue ==
  /\ dst.T = "NullInt64"
  /\ res' = MarshalBSONCall(dst.T, dst.v, NullInt64_MarshalBSONValue(dst.v))
  /\ UNCHANGED <<dst, globals, facade>>

Next ==
  \/ Convert
  \/ Call_ObjectIdFromHex
  \/ Call_ObjectIdFromHex_OfValue
  \/ Call_UuidFromString
  \/ Call_json_Unmarshal
  \/ Call_bson_UnmarshalValue
  \/ Call_ObjectId_IsZero
  \/ Call_ObjectId_String
  \/ Call_UUID_IsZero
  \/ Call_UUID_String
  \/ Call_ObjectId_MarshalJSON
  \/ Call_ObjectId_MarshalBSONValue
  \/ Call_ObjectId_UnmarshalJSON
  \/ Call_ObjectId_UnmarshalBSONValue
  \/ Call_UUID_MarshalJSON
  \/ Call_UUID_MarshalBSONValue
  \/ Call_UUID_UnmarshalJSON
  \/ Call_UUID_UnmarshalBSONValue
  \/ Call_Binary_MarshalJSON
  \/ Call_Binary_MarshalBSONValue
  \/ Call_Binary_UnmarshalJSON
  \/ Call_Binary_UnmarshalBSONValue
  \/ Call_NullString_MarshalJSON
  \/ Call_NullString_MarshalBSONValue
  \/ Call_NullFloat32_MarshalJSON
  \/ Call_NullFloat32_MarshalBSONValue
  \/ Call_NullFloat64_MarshalJSON
  \/ Call_NullFloat64_MarshalBSONValue
  \/ Call_NullInt32_MarshalJSON
  \/ Call_NullInt32_MarshalBSONValue
  \/ Call_NullInt64_MarshalJSON
  \/ Call_NullInt64_MarshalBSONValue

Spec == Init /\ [][Next]_vars

GenInit ==
  /\ dst = [T |-> "ObjectId", v |-> ZeroOf("ObjectId")]
  /\ res = NoCall
  /\ \E c \in CounterStarts : Globals(c)
  /\ Disconnected

GenNext ==
  \/ SetObjectIdGenerator
  \/ SetUuidGenerator
  \/ Publish
  \/ NewObjectId_Enter
  \/ NewObjectId_Load
  \/ NewObjectId_Return
  \/ NewUuid_Enter
  \/ NewUuid_Load
  \/ NewUuid_Return

GenSpec == GenInit /\ [][GenNext]_vars

ConnInit ==
  /\ dst = [T |-> "ObjectId", v |-> ZeroOf("ObjectId")]
  /\ res = NoCall
  /\ Globals(0)
  /\ Disconnected

ConnNext ==
  \/ NewConnector
  \/ WithContext
  \/ WithCollection
  \/ Call

ConnSpec == ConnInit /\ [][ConnNext]_vars

\* The database holds no counter yet, or one of the collection Counters that
\* was put there by other means.
SeqInit ==
  /\ dst = [T |-> "ObjectId", v |-> ZeroOf("ObjectId")]
  /\ res = NoCall
  /\ Globals(0)
  /\ connectors = {}
  /\ store \in {{}} \cup {{Document("Counters", "Users", current)} :
                             current \in Seeds}
  /\ seqCall = [g \in Goroutines |-> SeqIdle]
  /\ ret = NoReturn
  /\ handed = {}

SeqNext ==
  \/ NewConnector
  \/ WithCollection
  \/ GetNextSeq_FindOneAndUpdate
  \/ GetNextSeq_Return

SeqSpec == SeqInit /\ [][SeqNext]_vars

\* The connectors and the sequences, from an empty database.
CopyNext ==
  \/ NewConnector
  \/ WithContext
  \/ WithCollection
  \/ GetNextSeq_FindOneAndUpdate
  \/ GetNextSeq_Return

CopySpec == ConnInit /\ [][CopyNext]_vars

-----------------------------------------------------------------------------
(* What the claims speak of, stated apart from the code above.             *)

IsEncode == res.op \in {"MarshalJSON", "MarshalBSONValue"}

IsDecode == res.op \in {"UnmarshalJSON", "UnmarshalBSONValue"}

LowerHexChars ==
  {"0", "1", "2", "3", "4", "5", "6", "7", "8", "9", "a", "b", "c", "d", "e", "f"}

HexChars == LowerHexChars \cup {"A", "B", "C", "D", "E", "F"}

\* The empty value of each type.
IsEmptyValue(T, v) ==
  CASE T \in {"ObjectId", "UUID", "NullString"} -> Len(v) = 0
    [] T = "Binary" -> Len(v.bytes) = 0
    [] T \in {"NullInt32", "NullInt64"} -> \A i \in 1..Len(v) : v[i] = 0
    [] T \in {"NullFloat32", "NullFloat64"} -> v.m = 0 /\ ~v.inf

\* xxxxxxxx-xxxx-xxxx-xxxx-xxxxxxxxxxxx with digits from the set hex.
IsDashedUuid(s, hex) ==
  /\ Len(s) = 36
  /\ \A i \in 1..36 :
       IF i \in {9, 14, 19, 24} THEN s[i] = "-" ELSE s[i] \in hex

\* A canonical non-empty value: 24 lowercase hex digits other than the
\* all-zero sentinel, a lowercase 36-character UUID, a Binary with a byte.
IsCanonical(T, v) ==
  CASE T = "ObjectId" ->
         /\ Len(v) = 24
         /\ \A i \in 1..24 : v[i] \in LowerHexChars
         /\ \E i \in 1..24 : v[i] # "0"
    [] T = "UUID" -> IsDashedUuid(v, LowerHexChars)
    [] T = "Binary" -> Len(v.bytes) >= 1
    [] OTHER -> FALSE

\* The type tag a decoder expects besides null.
ExpectedType(T) == IF T = "ObjectId" THEN TypeObjectID ELSE TypeBinary

\* The subtype a decoder of binary values expects.
ExpectedSubtype(T) == IF T = "UUID" THEN TypeBinaryUUID ELSE TypeBinaryGeneric

WrongTypeError(T) ==
  IF T = "ObjectId" THEN "wrong bson type expected objectid"
  ELSE "wrong bson type expected binary"

WrongSubtypeError(T) ==
  IF T = "UUID" THEN "wrong subtype" ELSE "wrong bson subtype expected generic"

\* A binary payload whose length prefix is the length of what follows the
\* subtype byte.
IsWellFormedBinary(d) ==
  /\ Len(d) >= 5
  /\ d[4] = 0
  /\ d[1] + 256 * d[2] + 65536 * d[3] = Len(d) - 5

-----------------------------------------------------------------------------
(* The claims                                                                 *)

\* C1: MarshalJSON and MarshalBSONValue of the empty value of every wrapper
\* type (ObjectId "", UUID "", NullString "", the numbers 0, a Binary of
\* length 0, nil or not) return no error and null: the JSON literal null,
\* the BSON null type with no payload.
C1_EmptyEncodesNull ==
  (IsEncode /\ IsEmptyValue(res.T, res.recv)) =>
    /\ res.err = "nil"
    /\ res.op = "MarshalJSON" => res.out = << "n", "u", "l", "l" >>
    /\ res.op = "MarshalBSONValue" => res.typ = 10 /\ res.data = << >>

C1_Witness ==
  /\ res.op = "MarshalBSONValue"
  /\ res.T = "Binary"
  /\ res.recv = BinaryOf(<< >>)
  /\ res.typ = TypeNull

\* C2: UnmarshalJSON of the token null and UnmarshalBSONValue of the null
\* type return no error and leave the destination empty ("" for ObjectId
\* and UUID, nil for Binary), whatever it held before.
C2_NullDecodesEmpty ==
  (/\ IsDecode
   /\ \/ res.op = "UnmarshalJSON" /\ res.arg = << "n", "u", "l", "l" >>
      \/ res.op = "UnmarshalBSONValue" /\ res.arg.typ = 10) =>
    /\ res.err = "nil"
    /\ IF res.T = "Binary" THEN dst.v = NilBinary ELSE dst.v = << >>

C2_Witness ==
  /\ res.op = "UnmarshalJSON"
  /\ res.T = "UUID"
  /\ res.arg = JsonNull
  /\ res.recv = UuidB
  /\ dst.v = << >>

\* C3: for every canonical non-empty value the encoders succeed, and
\* decoding what MarshalJSON (MarshalBSONValue) returned with UnmarshalJSON
\* (UnmarshalBSONValue) of the same type gives the value back.
C3_RoundTrip ==
  /\ (IsEncode /\ IsCanonical(res.T, res.recv)) => res.err = "nil"
  /\ (IsDecode /\ res.wire /\ res.orig.T = res.T
      /\ IsCanonical(res.T, res.orig.v)) =>
       res.err = "nil" /\ dst.v = res.orig.v

C3_Witness ==
  /\ res.op = "UnmarshalBSONValue"
  /\ res.wire
  /\ res.T = "UUID"
  /\ res.orig.T = "UUID"
  /\ res.orig.v = UuidA
  /\ res.recv = UuidB
  /\ dst.v = UuidA

\* C4: the all-zero ObjectId is encoded as null by MarshalJSON and by
\* MarshalBSONValue, and MarshalBSONValue never returns an object id whose
\* 12 bytes are all zero.
C4_ZeroObjectIdIsNull ==
  /\ (IsEncode /\ res.T = "ObjectId" /\ res.recv = [i \in 1..24 |-> "0"]) =>
       /\ res.err = "nil"
       /\ res.op = "MarshalJSON" => res.out = JsonNull
       /\ res.op = "MarshalBSONValue" => res.typ = TypeNull /\ res.data = << >>
  /\ (res.op = "MarshalBSONValue" /\ res.T = "ObjectId"
      /\ res.typ = TypeObjectID) =>
       \E i \in 1..Len(res.data) : res.data[i] # 0

C4_Witness ==
  /\ res.op = "MarshalBSONValue"
  /\ res.T = "ObjectId"
  /\ res.recv = NilObjectID
  /\ res.typ = TypeNull

\* C5: UnmarshalBSONValue rejects every type but null and the expected one
\* with the wrong-type error; UUID and Binary reject a binary value of
\* another subtype with the wrong-subtype error, which is another error;
\* the type is checked first, so the wrong-subtype error is only ever
\* returned for a binary value; and nothing of a wrong type or subtype is
\* accepted.
C5_TypeAndSubtypeChecked ==
  (res.op = "UnmarshalBSONValue") =>
    /\ res.arg.typ \notin {TypeNull, ExpectedType(res.T)} =>
         res.err = WrongTypeError(res.T)
    /\ (/\ res.T \in {"UUID", "Binary"}
        /\ res.arg.typ = TypeBinary
        /\ IsWellFormedBinary(res.arg.data)
        /\ res.arg.data[5] # ExpectedSubtype(res.T)) =>
         res.err = WrongSubtypeError(res.T)
    /\ WrongSubtypeError(res.T) # WrongTypeError(res.T)
    /\ res.err = WrongSubtypeError(res.T) =>
         res.T # "ObjectId" /\ res.arg.typ = TypeBinary
    /\ res.err = "nil" =>
         \/ res.arg.typ = TypeNull
         \/ /\ res.arg.typ = ExpectedType(res.T)
            /\ res.T # "ObjectId" => res.arg.data[5] = ExpectedSubtype(res.T)

C5_Witness ==
  /\ res.op = "UnmarshalBSONValue"
  /\ res.T = "UUID"
  /\ res.arg = BsonValue(TypeBinary, BinaryPayload(3, UuidABytes))
  /\ res.err = "wrong subtype"

\* C6: a decoder that returns an error has not written the destination: it
\* holds what it held before the call.
C6_DecodeFailureAtomic ==
  (IsDecode /\ res.err \notin {"nil", "panic"}) => dst.v = res.recv

C6_Witness ==
  /\ res.op = "UnmarshalJSON"
  /\ res.T = "ObjectId"
  /\ res.arg = Quoted(OidShort)
  /\ res.err # "nil"
  /\ res.recv = OidB
  /\ dst.v = OidB

\* C7: ObjectIdFromHex and UuidFromString called with a string that does not
\* parse return an error together with the empty value of their type.
C7_ConstructorsFailEmpty ==
  (res.op \in {"ObjectIdFromHex", "UuidFromString"} /\ res.err # "nil") =>
    Len(dst.v) = 0

\* The texts bson.ObjectIDFromHex reads: exactly 24 hex digits.
IsObjectIdText(s) == Len(s) = 24 /\ \A i \in 1..24 : s[i] \in HexChars

\* The texts uuid.Parse reads: the dashed form, the dashed form after
\* urn:uuid: in any case or inside one leading and one trailing
\* character, and 32 hex digits.
IsUuidText(s) ==
  \/ IsDashedUuid(s, HexChars)
  \/ /\ Len(s) = 45
     /\ \A i \in 1..9 :
          \/ s[i] = << "u", "r", "n", ":", "u", "u", "i", "d", ":" >>[i]
          \/ s[i] = << "U", "R", "N", ":", "U", "U", "I", "D", ":" >>[i]
     /\ IsDashedUuid(SubSeq(s, 10, 45), HexChars)
  \/ Len(s) = 38 /\ IsDashedUuid(SubSeq(s, 2, 37), HexChars)
  \/ Len(s) = 32 /\ \A i \in 1..32 : s[i] \in HexChars

\* A non-empty ObjectId or UUID that does not parse.
IsUnparsable(T, v) ==
  /\ T \in {"ObjectId", "UUID"}
  /\ Len(v) > 0
  /\ T = "ObjectId" => ~IsObjectIdText(v)
  /\ T = "UUID" => ~IsUuidText(v)

IsValidValue(T, v) ==
  /\ ~IsEmptyValue(T, v)
  /\ T = "ObjectId" => IsObjectIdText(v)
  /\ T = "UUID" => IsUuidText(v)

\* The BSON value of the interface table for a non-empty valid value.
HasTableTag(T, v, typ, data) ==
  CASE T = "ObjectId"    -> typ = 7 /\ Len(data) = 12
    [] T = "UUID"        ->
         /\ typ = 5
         /\ Len(data) = 21
         /\ SubSeq(data, 1, 5) = << 16, 0, 0, 0, 4 >>
    [] T = "Binary"      ->
         /\ typ = 5
         /\ Len(data) = 5 + Len(v.bytes)
         /\ SubSeq(data, 1, 5) = << Len(v.bytes), 0, 0, 0, 0 >>
         /\ SubSeq(data, 6, Len(data)) = v.bytes
    [] T = "NullString"  -> typ = 2
    [] T = "NullInt32"   -> typ = 16
    [] T = "NullInt64"   -> typ = 18
    [] T = "NullFloat32" -> typ = 1
    [] T = "NullFloat64" -> typ = 1

\* C9 as stated: MarshalBSONValue of every non-empty valid value returns
\* the tag of the interface table, and the null tag only for empty values.
C9_TableTagForEveryValidValue ==
  (res.op = "MarshalBSONValue") =>
    /\ IsValidValue(res.T, res.recv) =>
         /\ res.err = "nil"
         /\ HasTableTag(res.T, res.recv, res.typ, res.data)
    /\ (res.err = "nil" /\ res.typ = 10) => IsEmptyValue(res.T, res.recv)

\* The all-zero ObjectId: 24 characters "0".
IsZeroSentinel(T, v) ==
  T = "ObjectId" /\ Len(v) = 24 /\ \A i \in 1..24 : v[i] = "0"

\* C9: MarshalBSONValue of every non-empty valid value other than the
\* all-zero ObjectId returns the tag of the interface table (object id,
\* binary with subtype UUID and 16 bytes, binary with the generic subtype
\* and the raw bytes, string, int32, int64 whatever the magnitude, double
\* for both floats); the null tag is returned only for empty values and
\* for the all-zero ObjectId.
C9_TableTagExceptSentinel ==
  (res.op = "MarshalBSONValue") =>
    /\ (IsValidValue(res.T, res.recv) /\ ~IsZeroSentinel(res.T, res.recv)) =>
         /\ res.err = "nil"
         /\ HasTableTag(res.T, res.recv, res.typ, res.data)
    /\ (res.err = "nil" /\ res.typ = 10) =>
         IsEmptyValue(res.T, res.recv) \/ IsZeroSentinel(res.T, res.recv)

C9_Witness ==
  /\ res.op = "MarshalBSONValue"
  /\ res.T = "NullInt64"
  /\ res.recv = << 0, 0, 0, 0, 0, 0, 0, 1 >>
  /\ res.typ = 18
  /\ res.data = << 1, 0, 0, 0, 0, 0, 0, 0 >>

\* b * 10 + c over the big-endian bytes of an unsigned number, the carry
\* out of the first byte dropped.
RECURSIVE TimesTenPlus(_, _)
TimesTenPlus(b, c) ==
  IF b = << >> THEN << >>
  ELSE LET n == Len(b)
           t == b[n] * 10 + c
       IN  TimesTenPlus(SubSeq(b, 1, n - 1), t \div 256) \o << t % 256 >>

DecimalDigits == << "0", "1", "2", "3", "4", "5", "6", "7", "8", "9" >>

\* The unsigned number a text of decimal digits denotes, in n bytes.
RECURSIVE DecimalMagnitude(_, _)
DecimalMagnitude(txt, n) ==
  IF txt = << >> THEN [i \in 1..n |-> 0]
  ELSE TimesTenPlus(DecimalMagnitude(SubSeq(txt, 1, Len(txt) - 1), n),
                    IndexOf(DecimalDigits, txt[Len(txt)]) - 1)

\* txt is the decimal numeral of the two's complement number v: an
\* optional minus sign, digits without a leading zero, and the magnitude
\* of v (computed in one byte more than v has, so that nothing wraps).
IsDecimalOf(txt, v) ==
  LET neg    == Len(txt) > 0 /\ txt[1] = "-"
      digits == IF neg THEN Tail(txt) ELSE txt
      mag    == IF v[1] >= 128
                  THEN << 0 >> \o IntIncr([i \in 1..Len(v) |-> 255 - v[i]])
                  ELSE << 0 >> \o v
  IN  /\ neg <=> v[1] >= 128
      /\ Len(digits) \in 1..(2 * Len(v) + 3)
      /\ \A i \in 1..Len(digits) : IndexOf(DecimalDigits, digits[i]) > 0
      /\ Len(digits) > 1 => digits[1] # "0"
      /\ DecimalMagnitude(digits, Len(v) + 1) = mag

\* C10: for NullInt32 and NullInt64 0 is the only value encoded as null;
\* every other value, the negative ones and the minimum and maximum of the
\* type included, is encoded without error as that number: its decimal
\* numeral in JSON, and in BSON the int32 or int64 holding exactly its 4
\* or 8 bytes.
C10_OnlyZeroIsNull ==
  (IsEncode /\ res.T \in {"NullInt32", "NullInt64"}) =>
    LET zero  == \A i \in 1..Len(res.recv) : res.recv[i] = 0
        width == IF res.T = "NullInt32" THEN 4 ELSE 8
    IN  /\ res.err = "nil"
        /\ Len(res.recv) = width
        /\ res.op = "MarshalJSON" =>
             /\ zero <=> res.out = << "n", "u", "l", "l" >>
             /\ ~zero => IsDecimalOf(res.out, res.recv)
        /\ res.op = "MarshalBSONValue" =>
             /\ zero <=> res.typ = 10
             /\ ~zero =>
                  /\ res.typ = IF width = 4 THEN 16 ELSE 18
                  /\ Len(res.data) = width
                  /\ \A i \in 1..width : res.data[i] = res.recv[width + 1 - i]

C10_Witness ==
  /\ res.op = "MarshalJSON"
  /\ res.T = "NullInt64"
  /\ res.recv = << 127, 255, 255, 255, 255, 255, 255, 255 >>
  /\ res.out = << "9", "2", "2", "3", "3", "7", "2", "0", "3", "6", "8", "5",
                  "4", "7", "7", "5", "8", "0", "7" >>

\* The lower-case form of a hex digit.
LowerOf(c) ==
  CASE c = "A" -> "a" [] c = "B" -> "b" [] c = "C" -> "c"
    [] c = "D" -> "d" [] c = "E" -> "e" [] c = "F" -> "f"
    [] OTHER -> c

IsLowerHex24(s) == Len(s) = 24 /\ \A i \in 1..24 : s[i] \in LowerHexChars

\* C11: an ObjectId produced by a successful ObjectIdFromHex, UnmarshalJSON
\* or UnmarshalBSONValue is empty or 24 lowercase hex characters; 24 hex
\* digits in any case are accepted and re-rendered in lowercase; and
\* ObjectIdFromHex of a canonical value, one it produced itself included,
\* returns that value.
C11_ObjectIdNormalised ==
  /\ (/\ res.T = "ObjectId"
      /\ res.op \in {"ObjectIdFromHex", "UnmarshalJSON", "UnmarshalBSONValue"}
      /\ res.err = "nil") =>
       dst.v = << >> \/ IsLowerHex24(dst.v)
  /\ (res.op = "ObjectIdFromHex" /\ IsObjectIdText(res.arg)) =>
       /\ res.err = "nil"
       /\ dst.v = [i \in 1..24 |-> LowerOf(res.arg[i])]
  /\ (/\ res.op = "UnmarshalJSON" /\ res.T = "ObjectId"
      /\ Len(res.arg) = 26
      /\ res.arg[1] = "\"" /\ res.arg[26] = "\""
      /\ IsObjectIdText(SubSeq(res.arg, 2, 25))) =>
       /\ res.err = "nil"
       /\ dst.v = [i \in 1..24 |-> LowerOf(res.arg[i + 1])]
  /\ (res.op = "ObjectIdFromHex" /\ IsLowerHex24(res.arg)) =>
       res.err = "nil" /\ dst.v = res.arg
  /\ (res.op = "ObjectIdFromHex" /\ res.wire /\ res.arg # << >>) =>
       res.err = "nil" /\ dst.v = res.arg

C11_Witness ==
  /\ res.op = "ObjectIdFromHex"
  /\ res.wire
  /\ res.arg = OidB
  /\ dst.v = OidB
  /\ res.err = "nil"

\* C12: ObjectId.IsZero is true exactly for the ObjectId of length zero;
\* String returns "null" exactly then and "ObjectID(<o>)" otherwise; so the
\* all-zero ObjectId is not IsZero and is displayed as
\* "ObjectID(000000000000000000000000)".
C12_ObjectIdZeroAndDisplay ==
  /\ (res.op = "IsZero" /\ res.T = "ObjectId") =>
       (res.ret <=> Len(res.recv) = 0)
  /\ (res.op = "String" /\ res.T = "ObjectId") =>
       /\ res.out = << "n", "u", "l", "l" >> <=> Len(res.recv) = 0
       /\ Len(res.recv) # 0 =>
            /\ Len(res.out) = Len(res.recv) + 10
            /\ SubSeq(res.out, 1, 9) =
                 << "O", "b", "j", "e", "c", "t", "I", "D", "(" >>
            /\ SubSeq(res.out, 10, Len(res.out) - 1) = res.recv
            /\ res.out[Len(res.out)] = ")"

C12_Witness ==
  /\ res.op = "String"
  /\ res.T = "ObjectId"
  /\ res.recv = [i \in 1..24 |-> "0"]
  /\ res.out = << "O", "b", "j", "e", "c", "t", "I", "D", "(" >>
                 \o [i \in 1..24 |-> "0"] \o << ")" >>

\* C13 as stated: UUID.IsZero is true exactly for the UUID of length zero,
\* and String of the zero UUID is what String of the zero ObjectId is.
C13_UuidDisplayMirrorsObjectId ==
  /\ (res.op = "IsZero" /\ res.T = "UUID") => (res.ret <=> Len(res.recv) = 0)
  /\ (res.op = "String" /\ res.T = "UUID" /\ Len(res.recv) = 0) =>
       res.out = << "n", "u", "l", "l" >>

\* C13: UUID.IsZero is true exactly for the UUID of length zero, and String
\* returns the text of the UUID as it is: the empty string for the zero
\* UUID, not "null".
C13_UuidZeroAndDisplay ==
  /\ (res.op = "IsZero" /\ res.T = "UUID") => (res.ret <=> Len(res.recv) = 0)
  /\ (res.op = "String" /\ res.T = "UUID") => res.out = res.recv

C13_Witness ==
  /\ res.op = "String"
  /\ res.T = "UUID"
  /\ res.recv = << >>
  /\ res.out = << >>

\* C17: a decoder reports every failure as an error it returns and never
\* panics; ObjectId.UnmarshalBSONValue called with the object-id type and
\* fewer than 12 bytes returns an error.
C17_DecodersNeverPanic ==
  IsDecode =>
    /\ res.err # "panic"
    /\ (/\ res.op = "UnmarshalBSONValue" /\ res.T = "ObjectId"
        /\ res.arg.typ = 7 /\ Len(res.arg.data) < 12) =>
         res.err # "nil"

\* The value of a lower-case hex digit.
LowerHexValue(c) ==
  (CHOOSE i \in 1..16 :
     << "0", "1", "2", "3", "4", "5", "6", "7", "8", "9", "a", "b", "c", "d",
        "e", "f" >>[i] = c) - 1

\* s is the canonical text of the 16 bytes b: the dashed lower-case form
\* whose hex pairs, in order, are the bytes.
IsUuidTextOf(s, b) ==
  /\ IsDashedUuid(s, LowerHexChars)
  /\ Len(b) = 16
  /\ LET h == SelectSeq(s, LAMBDA c : c # "-")
     IN  \A i \in 1..16 :
           16 * LowerHexValue(h[2 * i - 1]) + LowerHexValue(h[2 * i]) = b[i]

\* C18: UUID.UnmarshalBSONValue of a binary value with the UUID subtype
\* returns an error and leaves the destination as it was when the payload
\* is not exactly 16 bytes, and sets the destination to the canonical
\* lower-case 36-character text of the bytes when it is.
C18_UuidPayloadLength ==
  (/\ res.op = "UnmarshalBSONValue" /\ res.T = "UUID"
   /\ res.arg.typ = 5
   /\ IsWellFormedBinary(res.arg.data)
   /\ res.arg.data[5] = 4) =>
    LET payload == SubSeq(res.arg.data, 6, Len(res.arg.data))
    IN  IF Len(payload) = 16
          THEN res.err = "nil" /\ IsUuidTextOf(dst.v, payload)
          ELSE res.err \notin {"nil", "panic"} /\ dst.v = res.recv

C18_Witness ==
  /\ res.op = "UnmarshalBSONValue"
  /\ res.T = "UUID"
  /\ res.arg = BsonValue(TypeBinary, BinaryPayload(TypeBinaryUUID, << 14, 2 >>))
  /\ res.recv = UuidB
  /\ res.err # "nil"
  /\ dst.v = UuidB

\* A text base64.StdEncoding decodes, line breaks skipped: quanta of four
\* characters of the alphabet, the last one padded with one or two "=".
IsStdBase64(s) ==
  LET t == SelectSeq(s, LAMBDA c : c \notin {"\n", "\r"})
      n == Len(t)
      alphabet == {encodeStd[i] : i \in 1..64}
  IN  /\ n % 4 = 0
      /\ \A i \in 1..n :
           \/ t[i] \in alphabet
           \/ t[i] = "=" /\ i = n
           \/ t[i] = "=" /\ i = n - 1 /\ t[n] = "="

\* C19: Binary.UnmarshalJSON sets the destination to nil and returns no
\* error for an input of length zero, the token null and the empty JSON
\* string; for a non-empty JSON string of valid standard base64 it stores
\* the bytes the string encodes; and it returns an error, leaving the
\* destination alone, for an input that is no JSON string or no valid
\* base64.
C19_BinaryUnmarshalJSON ==
  (res.op = "UnmarshalJSON" /\ res.T = "Binary") =>
    LET j == JsonUnmarshalString(res.arg)
    IN  /\ res.arg \in {<< >>, << "n", "u", "l", "l" >>, << "\"", "\"" >>} =>
             res.err = "nil" /\ dst.v = [isNil |-> TRUE, bytes |-> << >>]
        /\ (Len(res.arg) > 0 /\ j.err # "nil") =>
             res.err # "nil" /\ dst.v = res.recv
        /\ (j.err = "nil" /\ Len(j.val) > 0 /\ ~IsStdBase64(j.val)) =>
             res.err # "nil" /\ dst.v = res.recv
        /\ (j.err = "nil" /\ Len(j.val) > 0 /\ IsStdBase64(j.val)) =>
             /\ res.err = "nil"
             /\ ~dst.v.isNil
             /\ Base64Encode(dst.v.bytes) =
                  SelectSeq(j.val, LAMBDA c : c \notin {"\n", "\r"})

C19_Witness ==
  /\ res.op = "UnmarshalJSON"
  /\ res.T = "Binary"
  /\ res.arg = << "\"", "\"" >>
  /\ res.recv = BinaryOf(<< 7 >>)
  /\ res.err = "nil"
  /\ dst.v = NilBinary

\* C20: decoding a JSON null or a BSON null into a NullString, NullInt32,
\* NullInt64, NullFloat32 or NullFloat64 leaves the destination equal to
\* "" respectively 0, whatever it held before.
C20_NullResetsNullable ==
  (/\ res.op \in {"json.Unmarshal", "bson.UnmarshalValue"}
   /\ \/ res.op = "json.Unmarshal" /\ res.arg = << "n", "u", "l", "l" >>
      \/ res.op = "bson.UnmarshalValue" /\ res.arg.typ = 10) =>
    /\ res.err = "nil"
    /\ IsEmptyValue(res.T, dst.v)

\* The calls of the constructor op that have returned a value.
ReturnedBy(op) ==
  {i \in 1..Len(returned) :
     returned[i].op = op /\ returned[i].outcome = "ok"}

\* C14: a constructor call that no call of its setter overlaps, and that
\* is entered with the stores of the last call of its setter visible to
\* the caller, returns exactly the text which the generator given to that
\* setter call returns, be it an identifier or not; calls of the other
\* setter make no difference to it.
C14_MostRecentGeneratorWins ==
  \A i \in 1..Len(returned) :
    LET c == returned[i]
    IN  (c.during = {} /\ c.hb /\ c.expect.kind # "default") =>
          /\ c.outcome = "ok"
          /\ c.val = c.expect.out

\* NewObjectId has returned the text of the second generator set for it,
\* which is no identifier, the first one having returned another text.
C14_Witness ==
  \E i, j \in ReturnedBy("NewObjectId") :
    /\ i < j
    /\ returned[i].expect = [Closure(OidB) EXCEPT !.id = 1]
    /\ returned[i].val = OidB
    /\ returned[j].during = {}
    /\ returned[j].hb
    /\ returned[j].expect = Literal(OidNotHex)
    /\ returned[j].val = OidNotHex
    /\ ~IsLowerHex24(returned[j].val)

\* C15: any two calls of NewObjectId return different identifiers, and no
\* value that NewObjectId or NewUuid returns is empty.
C15_AlwaysFreshAndNonEmpty ==
  /\ \A i, j \in ReturnedBy("NewObjectId") :
       i # j => returned[i].val # returned[j].val
  /\ \A i \in ReturnedBy("NewObjectId") : ~ObjectId_IsZero(returned[i].val)
  /\ \A i \in ReturnedBy("NewUuid") : ~UUID_IsZero(returned[i].val)

\* C15, as it holds: that is so of the calls that run the default
\* generators, whose identifiers are 24 lowercase hex digits.
C15_DefaultFreshAndNonEmpty ==
  /\ \A i, j \in ReturnedBy("NewObjectId") :
       (/\ i # j
        /\ returned[i].fn.kind = "default"
        /\ returned[j].fn.kind = "default") =>
         returned[i].val # returned[j].val
  /\ \A i \in ReturnedBy("NewObjectId") :
       returned[i].fn.kind = "default" =>
         /\ ~ObjectId_IsZero(returned[i].val)
         /\ IsLowerHex24(returned[i].val)
  /\ \A i \in ReturnedBy("NewUuid") :
       returned[i].fn.kind = "default" => ~UUID_IsZero(returned[i].val)

\* The default generator has been called twice, the driver's counter
\* wrapping around in between, and NewUuid once.
C15_Witness ==
  /\ \E i, j \in ReturnedBy("NewObjectId") :
       /\ i < j
       /\ returned[i].fn.kind = "default"
       /\ returned[j].fn.kind = "default"
       /\ SubSeq(returned[i].val, 19, 24) = << "f", "f", "f", "f", "f", "f" >>
       /\ SubSeq(returned[j].val, 19, 24) = << "0", "0", "0", "0", "0", "0" >>
  /\ \E i \in ReturnedBy("NewUuid") : returned[i].fn.kind = "default"

\* v is a text that the generator f can return to the constructor op.
IsOutputOf(op, f, v) ==
  IF f.kind # "default" THEN v = f.out
  ELSE IF op = "NewObjectId" THEN IsLowerHex24(v)
  ELSE v \in uuid_NewString

\* C16: the constructor returns the output of the generator that was set
\* when it was entered or of one set while it ran, whichever goroutine set
\* it, and nothing else; with no setter running meanwhile it is the output
\* of the generator last set.
C16_OldOrNewGenerator ==
  \A i \in 1..Len(returned) :
    LET c == returned[i]
    IN  /\ c.outcome = "ok"
        /\ \E f \in {c.atEntry} \cup c.during : IsOutputOf(c.op, f, c.val)
        /\ c.during = {} => IsOutputOf(c.op, c.expect, c.val)

-----------------------------------------------------------------------------
(* The connector and the sequences.                                        *)

\* b is a with another collection and nothing else changed, or with another
\* context and nothing else changed.
OnlyCollectionDiffers(a, b) ==
  /\ b.client = a.client
  /\ b.database = a.database
  /\ b.context = a.context

OnlyContextDiffers(a, b) ==
  /\ b.client = a.client
  /\ b.database = a.database
  /\ b.collection = a.collection

\* What the program holds of connectors is held for good, and whatever is
\* new was made by NewConnector or from a connector that was held.
ConnectorsKept ==
  /\ connectors \subseteq connectors'
  /\ \A c \in connectors' \ connectors :
       \/ c.collection = nil /\ c.context = context_TODO
       \/ \E r \in connectors :
            OnlyCollectionDiffers(r, c) \/ OnlyContextDiffers(r, c)

\* C21: WithCollection, WithContext and GetNextSeq leave the connector they
\* are called on as it was.  WithCollection returns a connector of the named
\* collection of the receiver's database, with the receiver's client,
\* database and context; WithContext returns a connector of the given
\* context, with the receiver's client, database and collection.  Whatever
\* is called later, on it or on a connector made from it, a connector keeps
\* its collection and its context; a step of GetNextSeq makes no connector
\* that the program gets to hold.
C21_ReceiverUnmodified ==
  [][/\ ConnectorsKept
     /\ \A conn \in connectors' \ connectors :
          /\ \A coll \in CollectionNames :
               LET newConn == StdConnector_WithCollection(conn, coll)
               IN  /\ OnlyCollectionDiffers(conn, newConn)
                   /\ newConn.collection =
                        mongo_Collection(conn.database, coll)
                   /\ connectors \subseteq Allocated(conn, newConn)
          /\ \A ctx \in Contexts :
               LET newConn == StdConnector_WithContext(conn, ctx)
               IN  /\ OnlyContextDiffers(conn, newConn)
                   /\ newConn.context = ctx
                   /\ connectors \subseteq Allocated(conn, newConn)
     /\ (seqCall' # seqCall \/ handed' # handed) =>
          connectors' = connectors]_vars

\* The first connector is held beside two made from it in a row, and numbers
\* were fetched through connectors with and without a collection.
C21_Witness ==
  /\ \E uri \in Clients : \E database \in Databases :
       /\ StdConnector_New(uri, database) \in connectors
       /\ \E c \in connectors :
            /\ c.collection = mongo_Collection(database, "Counters")
            /\ c.context = "context.Background()"
  /\ \E h \in handed : h.err = NoError /\ h.id = "Counters"
  /\ \E h \in handed : h.err = NoError /\ h.id = "Users"

\* The operations of the connector that need a collection, as the interface
\* lists them, and what each one returns beside the error when there is no
\* collection.
GuardedOperations ==
  {"Find", "FindOne", "Count", "Distinct", "FindOneAndDelete",
   "FindOneAndReplace", "FindOneAndUpdate", "UpdateOne", "UpdateMany",
   "UpdateById", "ReplaceOne", "InsertOne", "InsertMany", "DeleteOne",
   "DeleteMany", "Aggregate", "Indexes", "CreateIndex", "SearchIndexes",
   "CreateSearchIndex", "Drop", "Watch"}

ResultWithoutCollection(op) ==
  CASE op = "Count" -> "-1"
    [] op \in {"FindOne", "FindOneAndDelete", "FindOneAndReplace",
               "FindOneAndUpdate"} -> "SingleResult"
    [] op \in {"CreateIndex", "CreateSearchIndex"} -> ""
    [] op = "Drop" -> "none"
    [] OTHER -> "nil"

\* The operation of the driver that an operation of the connector ends in.
DriverOperation(op) ==
  CASE op = "Count" -> <<"CountDocuments">>
    [] op = "UpdateById" -> <<"UpdateByID">>
    [] op = "CreateIndex" -> <<"Indexes", "CreateOne">>
    [] op = "CreateSearchIndex" -> <<"SearchIndexes", "CreateOne">>
    [] OTHER -> <<op>>

IsGuardedCall == ret.op \in GuardedOperations

Refused ==
  /\ ret.err = ErrNoCollectionSet
  /\ ret.calls = << >>
  /\ ret.out.how = ResultWithoutCollection(ret.op)

ForwardedOnce ==
  /\ Len(ret.calls) = 1
  /\ ret.calls[1].collection = ret.recv.collection
  /\ ret.calls[1].args = ret.arg
  /\ ret.out.val.of = ret.calls[1]

C29_CollectionSetOnlyByWithCollection ==
  [][/\ connectors \subseteq connectors'
     /\ \A uri \in Clients : \A database \in Databases :
          StdConnector_New(uri, database).collection = nil
     /\ \A c \in connectors' \ connectors :
          /\ c.collection # nil =>
               \E r \in connectors :
                 \/ r.collection = c.collection
                 \/ /\ OnlyCollectionDiffers(r, c)
                    /\ c.collection.name \in CollectionNames
          /\ \A ctx \in Contexts :
               StdConnector_WithContext(c, ctx).collection = c.collection
          /\ \A coll \in CollectionNames :
               /\ StdConnector_WithCollection(c, coll).collection.ptr
               /\ StdConnector_WithCollection(c, coll).collection.name = coll
               /\ StdConnector_WithCollection(c, coll).context = c.context
     /\ ret'.op \in GuardedOperations =>
          /\ ret'.recv \in connectors
          /\ (ret'.err = ErrNoCollectionSet) = (ret'.recv.collection = nil)]_vars

\* An operation went to the driver on a connector with a collection and a
\* context of its own, while connectors with another collection, and with
\* none under either context, are held.
C29_Witness ==
  /\ ret.op = "Drop"
  /\ ret.err = NoError
  /\ ret.recv.collection.name = "Counters"
  /\ ret.recv.context = "context.Background()"
  /\ \E c \in connectors :
       c.collection.name = "Users" /\ c.context = context_TODO
  /\ Cardinality({c \in connectors : c.collection = nil}) = 2

\* The calls of GetNextSeq to which the server has answered with the
\* document of the counter d: those that returned and those that are yet to
\* decode the answer.
AnsweredAndReturned(d) ==
  {h \in handed : h.coll = d.coll /\ h.id = d._id /\ h.doc # NoDocument}

AnsweredNotReturned(d) ==
  {g \in Goroutines :
     /\ seqCall[g].pc = "decode"
     /\ seqCall[g].coll.name = d.coll
     /\ seqCall[g].id = d._id
     /\ seqCall[g].res.doc # NoDocument}

AnsweredNumbers(d) ==
  {h.doc.v : h \in AnsweredAndReturned(d)}
    \cup {seqCall[g].res.doc.v : g \in AnsweredNotReturned(d)}

AnsweredTimes(d) ==
  Times(AnsweredAndReturned(d)) + Cardinality(AnsweredNotReturned(d))

IsInteger(current) == current.type \in {"int32", "int64"}

Succeeded(coll, id) ==
  {h \in handed : h.coll = coll /\ h.id = id /\ h.err = NoError}

\* The calls for the counter d that the server answered and that returned
\* an error all the same.
AnsweredAndFailed(d) ==
  {h \in AnsweredAndReturned(d) : h.err # NoError}

Range(S) ==
  IF S = {} THEN {}
  ELSE (CHOOSE n \in S : \A m \in S : n <= m)
         .. (CHOOSE n \in S : \A m \in S : n >= m)

SequenceCollections == {"Sequences", "Counters"}
CounterIds == {"Users", "Counters"}

\* C24 as it is worded: whatever the order of the steps of the callers, no
\* number is returned twice for a name, and once the callers have all
\* returned the numbers returned for it leave no number out.
C24_NeverTheSameNumberAndNoGap ==
  \A coll \in SequenceCollections : \A id \in CounterIds :
    LET S == Succeeded(coll, id)
    IN  /\ \A h \in S : h.times = 1
        /\ \A h1, h2 \in S : h1 # h2 => h1.seq # h2.seq
        /\ (\A g \in Goroutines : seqCall[g].pc = "idle") =>
             {h.seq : h \in S} = Range({h.seq : h \in S})

\* C24: the increment and the fetch are one step of the server.  For a
\* counter that holds an integer, as every counter that GetNextSeq made
\* does, no two calls are answered the same number, whether one has
\* returned or both are still to decode the answer, no number is returned
\* twice, and the numbers answered leave no number out; the numbers returned
\* leave out those, and only those, answered to a call that failed after
\* the increment.
C24_AtomicIncrementAndFetch ==
  \A d \in store :
    IsInteger(d.Current) =>
      /\ \A h \in AnsweredAndReturned(d) : h.times = 1
      /\ \A h1, h2 \in AnsweredAndReturned(d) :
           h1 # h2 => h1.doc.v # h2.doc.v
      /\ \A g1, g2 \in AnsweredNotReturned(d) :
           g1 # g2 => seqCall[g1].res.doc.v # seqCall[g2].res.doc.v
      /\ \A h \in AnsweredAndReturned(d) : \A g \in AnsweredNotReturned(d) :
           h.doc.v # seqCall[g].res.doc.v
      /\ AnsweredNumbers(d) =
           (d.Current.v - Cardinality(AnsweredNumbers(d)) + 1) .. d.Current.v
      /\ AnsweredNotReturned(d) = {} =>
           {h.seq : h \in Succeeded(d.coll, d._id)}
             = Range(AnsweredNumbers(d))
                 \ {h.doc.v : h \in AnsweredAndFailed(d)}

\* Two callers are under way for the same name at once, and have been
\* answered 1 and 2.
C24_Witness ==
  /\ \A g \in Goroutines :
       /\ seqCall[g].pc = "decode"
       /\ seqCall[g].coll.name = "Sequences"
       /\ seqCall[g].id = "Users"
       /\ seqCall[g].res.decodes
  /\ {seqCall[g].res.doc.v : g \in Goroutines} = {1, 2}

\* The calls of GetNextSeq that the step starts, and the calls it refuses.
Started == {g \in Goroutines : seqCall[g].pc = "idle" /\ seqCall'[g].pc = "decode"}

Refusals(h) == Times({x \in h : x.err = ErrNoCollectionSet})

Touched == (store' \ store) \cup (store \ store')

\* C25: a call of GetNextSeq with a name works on the counter of that name,
\* whether or not the connector has a collection; a call without a name
\* works on the counter named as the collection of a connector that has
\* one, and is refused with "no collection set", the store left alone,
\* when the connector has none.  The counter is in the collection
\* "Sequences", or in the one the first optional argument names, whatever
\* follows that argument, and no other document is touched.
C25_TargetOfGetNextSeq ==
  [][/\ \A g \in Started :
          LET c == seqCall'[g]
          IN  /\ c.id # ""
              /\ c.name # "" => c.id = c.name
              /\ c.name = "" =>
                   \E conn \in connectors :
                     conn.collection # nil /\ conn.collection.name = c.id
              /\ c.coll.ptr
              /\ c.coll.name =
                   IF c.opts = << >> THEN "Sequences" ELSE Head(c.opts)
              /\ \A d \in Touched : d.coll = c.coll.name /\ d._id = c.id
     /\ (Refusals(handed') > Refusals(handed)) =>
           /\ store' = store
           /\ seqCall' = seqCall
           /\ \E conn \in connectors : conn.collection = nil
           /\ \A x \in handed' :
                (x.err = ErrNoCollectionSet) =>
                  (x.seq = 0 /\ x.doc = NoDocument)
     /\ (Started = {} /\ Refusals(handed') = Refusals(handed)) =>
           (store' = store)
     ]_vars

\* Every connector is without a collection, one call without a name was
\* refused, one with the name "Users" and the optional arguments
\* "Counters", "Users" is under way on the counter "Users" of "Counters".
C25_Witness ==
  /\ connectors # {}
  /\ \A conn \in connectors : conn.collection = nil
  /\ Refusals(handed) = 1
  /\ \E g \in Goroutines :
       /\ seqCall[g].pc = "decode"
       /\ seqCall[g].name = "Users"
       /\ seqCall[g].opts = <<"Counters", "Users">>
       /\ seqCall[g].coll.name = "Counters"
       /\ Found("Counters", "Users") # {}

\* The types of Current that GetNextSeq turns into a number.
Supported == {"int32", "int64", "float64"}

\* The calls that came back from the server with a document and failed on it.
FailedOnDocument ==
  {h \in handed :
     h.doc # NoDocument /\ h.err \in {ErrDecode, ErrUnknownReturnType}}

\* C26: a call whose document does not decode, or whose Current is of a
\* type other than int32, int64 and float64, returns 0 and an error, the
\* second one "unknown return type" and never a number; the counter it
\* incremented stays incremented, here and in every later step, and no
\* call that succeeds is given the document, and on a counter of integers
\* the number, that the failed call consumed.
C26_FailedCallConsumesNumber ==
  /\ \A h \in handed :
       h.doc # NoDocument =>
         /\ (h.err = NoError) => (h.doc.type \in Supported)
         /\ (h.doc.type \notin Supported) =>
              (h.err \in {ErrDecode, ErrUnknownReturnType})
         /\ (h.err = ErrUnknownReturnType) => (h.doc.type \notin Supported)
  /\ \A h \in FailedOnDocument :
       /\ h.seq = 0
       /\ \E d \in Found(h.coll, h.id) :
            d.Current.type = h.doc.type /\ d.Current.v >= h.doc.v
       /\ \A s \in Succeeded(h.coll, h.id) :
            /\ s.doc # h.doc
            /\ IsInteger(h.doc) => s.seq # h.doc.v
  /\ \A g \in Goroutines :
       (seqCall[g].pc = "decode" /\ seqCall[g].res.err = NoError) =>
         \E d \in Found(seqCall[g].coll.name, seqCall[g].id) :
           /\ d.Current.type = seqCall[g].res.doc.type
           /\ d.Current.v >= seqCall[g].res.doc.v

\* Two calls on the counter seeded with the decimal 1 have failed with
\* "unknown return type", on the documents 2 and 3, and the counter is 3.
C26_Witness ==
  /\ \E h \in FailedOnDocument :
       /\ h.err = ErrUnknownReturnType
       /\ h.doc = Number("decimal128", 2)
  /\ \E h \in FailedOnDocument :
       /\ h.err = ErrUnknownReturnType
       /\ h.doc = Number("decimal128", 3)
  /\ Found("Counters", "Users") =
       {Document("Counters", "Users", Number("decimal128", 3))}

\* The exponent of the leading bit of a value that is not zero.
TopBit(f) == BitLen(f.m) - 1 + f.e

\* x is a float32: zero, an infinity, or at most 24 bits at 2^-149 or
\* above and below 2^128.
IsFloat32(x) ==
  x.inf \/ x.m = 0 \/
  (FloatNorm(x).e >= -149 /\ BitLen(FloatNorm(x).m) <= 24 /\ TopBit(x) <= 127)

\* x is float32(v) as far as the claim goes: v itself where v is a
\* float32, zero of the sign of v where v is at most half the smallest
\* float32, 2^-150, and a float32 in every case.
IsNarrowed(v, x) ==
  /\ IsFloat32(x)
  /\ x.neg = v.neg
  /\ IsFloat32(v) => x = FloatNorm(v)
  /\ (~v.inf /\ v.m # 0 /\
      (TopBit(v) < -150 \/ (TopBit(v) = -150 /\ FloatNorm(v).m = 1))) =>
       (~x.inf /\ x.m = 0)

\* What was encoded is the number x: the JSON number of x at the bit size,
\* or the BSON double whose 8 bytes are those of x.
EncodedNumber(bitSize) ==
  IF res.op = "MarshalJSON"
    THEN IF res.err = "nil" /\ res.out # JsonNull /\ Len(res.num) = 2 /\
            res.num[1] = bitSize
           THEN {res.num[2]} ELSE {}
    ELSE IF res.err = "nil" /\ res.typ = TypeDouble /\ Len(res.data) = 8
           THEN {Float64FromBytes(res.data)} ELSE {}

EncodedNull ==
  /\ res.err = "nil"
  /\ IF res.op = "MarshalJSON" THEN res.out = JsonNull
     ELSE res.typ = TypeNull /\ res.data = << >>

\* json.Marshal refuses a float that is an infinity.
JsonRefuses(x) == res.op = "MarshalJSON" /\ x.inf

EncodedFloat32 ==
  (IsEncode /\ res.T = "NullFloat32") =>
    /\ FloatIsZero(res.recv) <=> EncodedNull
    /\ ~FloatIsZero(res.recv) =>
         \/ \E x \in EncodedNumber(32) : IsNarrowed(res.recv, x)
         \/ /\ res.op = "MarshalJSON"
            /\ res.err # "nil"
            /\ res.out = << >>
            /\ res.recv.inf \/ TopBit(res.recv) > 127

NilUuidBson ==
  BsonValue(TypeBinary,
            << 16, 0, 0, 0, TypeBinaryUUID >> \o [i \in 1..16 |-> 0])

\* C28: a UUID is encoded as null when it is the empty string and only
\* then; the nil UUID is encoded in JSON as its 36 characters in quotes and
\* in BSON as the binary of the UUID subtype with 16 zero bytes, and either
\* encoding of it is decoded to the nil UUID; the ObjectId of 24 zeros is
\* encoded as null.
C28_NilUuidIsNoSentinel ==
  /\ (IsEncode /\ res.T = "UUID") =>
       /\ EncodedNull <=> res.recv = << >>
       /\ res.recv = NilUuid =>
            /\ res.err = "nil"
            /\ res.op = "MarshalJSON" =>
                 res.out = << "\"" >> \o NilUuid \o << "\"" >>
            /\ res.op = "MarshalBSONValue" =>
                 BsonValue(res.typ, res.data) = NilUuidBson
  /\ (IsDecode /\ res.T = "UUID") =>
       /\ (res.op = "UnmarshalJSON" /\
           res.arg = << "\"" >> \o NilUuid \o << "\"" >>) =>
            (res.err = "nil" /\ dst.v = NilUuid)
       /\ (res.op = "UnmarshalBSONValue" /\ res.arg = NilUuidBson) =>
            (res.err = "nil" /\ dst.v = NilUuid)
       /\ (res.wire /\ res.orig.T = "UUID" /\ res.orig.v = NilUuid) =>
            (res.err = "nil" /\ dst.v = NilUuid /\ dst.v # << >>)
  /\ (IsEncode /\ res.T = "ObjectId" /\ res.recv = NilObjectID) => EncodedNull

\* The nil UUID was written as a BSON binary and read back from it.
C28_Witness ==
  /\ res.op = "UnmarshalBSONValue"
  /\ res.T = "UUID"
  /\ res.wire
  /\ res.orig.T = "UUID"
  /\ res.orig.v = NilUuid
  /\ res.arg = NilUuidBson
  /\ dst.v = NilUuid

\* A JSON string token that holds a UUID of 36 characters, in either case.
IsUuidStringToken(data) ==
  /\ Len(data) = 38
  /\ data[1] = "\"" /\ data[38] = "\""
  /\ IsDashedUuid(SubSeq(data, 2, 37), HexChars)

\* C30: UUID.UnmarshalJSON returns no error for the token null and for a
\* string token that holds a UUID of 36 characters, and for no other
\* token; a call that returns an error leaves the destination as it was.
C30_OnlyNullAndUuidStrings ==
  (res.op = "UnmarshalJSON" /\ res.T = "UUID") =>
    /\ res.err = "nil" <=>
         (res.arg = JsonNull \/ IsUuidStringToken(res.arg))
    /\ res.err # "nil" => dst.v = res.recv

=============================================================================
